---- MODULE Spec2Model ----
(***************************************************************************)
(* The Referee: the AI-orchestration pipeline of the comparison backend.   *)
(*                                                                         *)
(*   - responseNormalizer: extractJson, JSON.parse, validateOption,        *)
(*     validateTradeOff, normalizeGrokResponse                             *)
(*   - grokService: createGrokError, getApiKey, callGrokWithRetry          *)
(*   - comparisonService: storeComparisonRequest, executeComparison,       *)
(*     storeComparisonResult                                               *)
(*   - comparisonController: createComparison                              *)
(*                                                                         *)
(* Text is a sequence of symbols.  A symbol is one character ("{", ":",    *)
(* " ", ...) or a run of letters that no regular expression or JSON rule   *)
(* of the program looks into ("options", "json", "A", ...).                *)
(***************************************************************************)
EXTENDS Integers, Sequences, FiniteSets, TLC

(***************************************************************************)
(* Strings                                                                 *)
(***************************************************************************)
QUOTE == "\""
BSLASH == "\\"
NL == "\n"
\* the backquote character
TICK == "BACKQUOTE"

\* \s of the regular expressions, and the characters String.prototype.trim strips
IsSpace(c) == c \in {" ", NL}

RECURSIVE TrimStart(_)
TrimStart(s) ==
    IF s # <<>> /\ IsSpace(Head(s)) THEN TrimStart(Tail(s)) ELSE s

RECURSIVE TrimEnd(_)
TrimEnd(s) ==
    IF s # <<>> /\ IsSpace(s[Len(s)]) THEN TrimEnd(SubSeq(s, 1, Len(s) - 1)) ELSE s

\* String.prototype.trim
Trim(s) == TrimEnd(TrimStart(s))

\* !s.trim() : the string is empty or only white space
IsBlank(s) == Trim(s) = <<>>

(***************************************************************************)
(* JSON values.  Every node has the same four fields, so that any two      *)
(* nodes can be compared:                                                  *)
(*   t    : "null" | "true" | "false" | "num" | "str" | "arr" | "obj"      *)
(*   s    : the characters of a string, the digits of a number             *)
(*   keys : the keys of an object, in insertion order                      *)
(*   kids : the elements of an array, the values of an object              *)
(***************************************************************************)
JNull == [t |-> "null", s |-> <<>>, keys |-> <<>>, kids |-> <<>>]
JTrue == [t |-> "true", s |-> <<>>, keys |-> <<>>, kids |-> <<>>]
JFalse == [t |-> "false", s |-> <<>>, keys |-> <<>>, kids |-> <<>>]
JNum(digits) == [t |-> "num", s |-> digits, keys |-> <<>>, kids |-> <<>>]
JStr(chars) == [t |-> "str", s |-> chars, keys |-> <<>>, kids |-> <<>>]
JArr(elems) == [t |-> "arr", s |-> <<>>, keys |-> <<>>, kids |-> elems]
JObj(ks, vs) == [t |-> "obj", s |-> <<>>, keys |-> ks, kids |-> vs]
\* the value of a property that is not there
Undefined == [t |-> "undefined", s |-> <<>>, keys |-> <<>>, kids |-> <<>>]

IndexOfKey(ks, k) ==
    IF \E i \in 1..Len(ks) : ks[i] = k
    THEN CHOOSE i \in 1..Len(ks) : ks[i] = k
    ELSE 0

\* obj[k]
Get(node, k) ==
    IF node.t = "obj" /\ IndexOfKey(node.keys, k) # 0
    THEN node.kids[IndexOfKey(node.keys, k)]
    ELSE Undefined

\* obj[k] = v : a new key goes last, a known key keeps its place
Put(node, k, v) ==
    IF IndexOfKey(node.keys, k) # 0
    THEN [node EXCEPT !.kids[IndexOfKey(node.keys, k)] = v]
    ELSE [node EXCEPT !.keys = Append(@, k), !.kids = Append(@, v)]

\* typeof v === 'string', typeof v === 'object', Array.isArray(v), !v
IsString(v) == v.t = "str"
TypeofObject(v) == v.t \in {"obj", "arr", "null"}
IsArray(v) == v.t = "arr"
Digits == {"0", "1", "2", "3", "4", "5", "6", "7", "8", "9"}
Falsy(v) ==
    \/ v.t \in {"undefined", "null", "false"}
    \/ v.t = "str" /\ v.s = <<>>
    \/ v.t = "num" /\ v.s = <<"0">>

(***************************************************************************)
(* JSON.stringify                                                          *)
(***************************************************************************)
RECURSIVE QuoteChars(_)
QuoteChars(s) ==
    IF s = <<>> THEN <<>>
    ELSE LET c == Head(s)
             e == IF c = QUOTE THEN <<BSLASH, QUOTE>>
                  ELSE IF c = BSLASH THEN <<BSLASH, BSLASH>>
                  ELSE IF c = NL THEN <<BSLASH, "n">>
                  ELSE <<c>>
         IN e \o QuoteChars(Tail(s))

QuoteString(s) == <<QUOTE>> \o QuoteChars(s) \o <<QUOTE>>

RECURSIVE JSONstringify(_)
RECURSIVE StringifyElems(_, _)
RECURSIVE StringifyMembers(_, _, _)
StringifyElems(elems, i) ==
    IF i > Len(elems) THEN <<>>
    ELSE (IF i > 1 THEN <<",">> ELSE <<>>)
         \o (IF elems[i].t = "undefined" THEN <<"null">> ELSE JSONstringify(elems[i]))
         \o StringifyElems(elems, i + 1)

\* a property whose value is undefined is left out
StringifyMembers(ks, vs, first) ==
    IF ks = <<>> THEN <<>>
    ELSE IF Head(vs).t = "undefined" THEN StringifyMembers(Tail(ks), Tail(vs), first)
    ELSE (IF first THEN <<>> ELSE <<",">>)
         \o QuoteString(Head(ks)) \o <<":">> \o JSONstringify(Head(vs))
         \o StringifyMembers(Tail(ks), Tail(vs), FALSE)

JSONstringify(v) ==
    CASE v.t = "null" -> <<"null">>
      [] v.t = "true" -> <<"true">>
      [] v.t = "false" -> <<"false">>
      [] v.t = "num" -> v.s
      [] v.t = "str" -> QuoteString(v.s)
      [] v.t = "arr" -> <<"[">> \o StringifyElems(v.kids, 1) \o <<"]">>
      [] v.t = "obj" -> <<"{">> \o StringifyMembers(v.keys, v.kids, TRUE) \o <<"}">>

(***************************************************************************)
(* JSON.parse : a recursive-descent parser over the symbols.               *)
(* A parse step answers [ok, val, pos]: pos is the first unread position.  *)
(***************************************************************************)
PFail == [ok |-> FALSE, val |-> JNull, pos |-> 0]
POk(v, p) == [ok |-> TRUE, val |-> v, pos |-> p]

RECURSIVE SkipWs(_, _)
SkipWs(s, i) == IF i <= Len(s) /\ IsSpace(s[i]) THEN SkipWs(s, i + 1) ELSE i

\* the characters of a string literal, from the one after the opening quote
RECURSIVE ScanString(_, _, _)
ScanString(s, i, acc) ==
    IF i > Len(s) THEN PFail
    ELSE IF s[i] = QUOTE THEN POk(JStr(acc), i + 1)
    ELSE IF s[i] = BSLASH THEN
        IF i + 1 > Len(s) THEN PFail
        ELSE IF s[i + 1] \in {QUOTE, BSLASH} THEN ScanString(s, i + 2, Append(acc, s[i + 1]))
        ELSE IF s[i + 1] = "n" THEN ScanString(s, i + 2, Append(acc, NL))
        ELSE PFail
    ELSE IF s[i] = NL THEN PFail   \* a raw control character
    ELSE ScanString(s, i + 1, Append(acc, s[i]))

RECURSIVE ScanDigits(_, _)
ScanDigits(s, i) == IF i <= Len(s) /\ s[i] \in Digits THEN ScanDigits(s, i + 1) ELSE i

RECURSIVE ParseValue(_, _)
RECURSIVE ParseElems(_, _, _)
RECURSIVE ParseMembers(_, _, _)

\* after "[" or ",": value, then "," or "]"
ParseElems(s, i, acc) ==
    LET r == ParseValue(s, i)
        j == SkipWs(s, r.pos)
    IN IF ~r.ok \/ j > Len(s) THEN PFail
       ELSE IF s[j] = "," THEN ParseElems(s, j + 1, Append(acc, r.val))
       ELSE IF s[j] = "]" THEN POk(JArr(Append(acc, r.val)), j + 1)
       ELSE PFail

\* after "{" or ",": "key" : value, then "," or "}"
ParseMembers(s, i, acc) ==
    LET k == SkipWs(s, i)
        key == IF k <= Len(s) /\ s[k] = QUOTE THEN ScanString(s, k + 1, <<>>) ELSE PFail
        c == SkipWs(s, key.pos)
        r == IF key.ok /\ c <= Len(s) /\ s[c] = ":" THEN ParseValue(s, c + 1) ELSE PFail
        j == SkipWs(s, r.pos)
    IN IF ~r.ok \/ j > Len(s) THEN PFail
       ELSE IF s[j] = "," THEN ParseMembers(s, j + 1, Put(acc, key.val.s, r.val))
       ELSE IF s[j] = "}" THEN POk(Put(acc, key.val.s, r.val), j + 1)
       ELSE PFail

ParseValue(s, i0) ==
    LET i == SkipWs(s, i0)
    IN IF i > Len(s) THEN PFail
       ELSE IF s[i] = "null" THEN POk(JNull, i + 1)
       ELSE IF s[i] = "true" THEN POk(JTrue, i + 1)
       ELSE IF s[i] = "false" THEN POk(JFalse, i + 1)
       ELSE IF s[i] = QUOTE THEN ScanString(s, i + 1, <<>>)
       ELSE IF s[i] \in Digits THEN
            LET e == ScanDigits(s, i)
            IN IF s[i] = "0" /\ e > i + 1 THEN PFail   \* no leading zero
               ELSE POk(JNum(SubSeq(s, i, e - 1)), e)
       ELSE IF s[i] = "[" THEN
            LET j == SkipWs(s, i + 1)
            IN IF j <= Len(s) /\ s[j] = "]" THEN POk(JArr(<<>>), j + 1)
               ELSE ParseElems(s, i + 1, <<>>)
       ELSE IF s[i] = "{" THEN
            LET j == SkipWs(s, i + 1)
            IN IF j <= Len(s) /\ s[j] = "}" THEN POk(JObj(<<>>, <<>>), j + 1)
               ELSE ParseMembers(s, i + 1, JObj(<<>>, <<>>))
       ELSE PFail

\* JSON.parse(text): [ok, val]; ok = FALSE is the SyntaxError
JSONparse(text) ==
    LET r == ParseValue(text, 1)
    IN IF r.ok /\ SkipWs(text, r.pos) > Len(text)
       THEN [ok |-> TRUE, val |-> r.val]
       ELSE [ok |-> FALSE, val |-> JNull]

(***************************************************************************)
(* responseNormalizer                                                      *)
(***************************************************************************)
\* three backquotes start at position i
FenceAt(s, i) == i + 2 <= Len(s) /\ s[i] = TICK /\ s[i + 1] = TICK /\ s[i + 2] = TICK

Min(S) == CHOOSE x \in S : \A y \in S : x <= y
Max(S) == CHOOSE x \in S : \A y \in S : x >= y

\* raw.match(/```(?:json)?\s*([\s\S]*?)```/) : the leftmost opening fence that
\* has a closing fence after it; group 1 starts after the optional "json" and
\* the white space, and ends before the nearest closing fence.
FenceOpenings(s) ==
    {i \in 1..Len(s) : FenceAt(s, i) /\ \E j \in (i + 3)..Len(s) : FenceAt(s, j)}
FenceGroup1(s) ==
    LET i == Min(FenceOpenings(s))
        p == IF s[i + 3] = "json" THEN i + 4 ELSE i + 3
        q == SkipWs(s, p)
        k == Min({j \in q..Len(s) : FenceAt(s, j)})
    IN SubSeq(s, q, k - 1)

\* raw.match(/\{[\s\S]*\}/) : from the first "{" that has a "}" after it to the
\* last "}" of the text.
BraceOpenings(s) ==
    {i \in 1..Len(s) : s[i] = "{" /\ \E j \in (i + 1)..Len(s) : s[j] = "}"}
BraceMatch(s) ==
    SubSeq(s, Min(BraceOpenings(s)), Max({j \in 1..Len(s) : s[j] = "}"}))

extractJson(raw) ==
    IF FenceOpenings(raw) # {} THEN Trim(FenceGroup1(raw))
    ELSE IF BraceOpenings(raw) # {} THEN BraceMatch(raw)
    ELSE Trim(raw)

\* a NormalizationError: the message text, with the index or the name it quotes
NoIndex == 0 - 1
NormalizationError(text, index, name) ==
    [ok |-> FALSE, text |-> text, index |-> index, name |-> name,
     options |-> <<>>, tradeOffs |-> <<>>]

\* String(value) of a parsed JSON value
RECURSIVE JsString(_)
RECURSIVE JsJoin(_, _)
JsJoin(elems, i) ==
    IF i > Len(elems) THEN <<>>
    ELSE (IF i > 1 THEN <<",">> ELSE <<>>)
         \o (IF elems[i].t \in {"null", "undefined"} THEN <<>> ELSE JsString(elems[i]))
         \o JsJoin(elems, i + 1)
JsString(v) ==
    CASE v.t = "str" -> v.s
      [] v.t = "num" -> v.s
      [] v.t \in {"true", "false", "null", "undefined"} -> <<v.t>>
      [] v.t = "arr" -> JsJoin(v.kids, 1)
      [] v.t = "obj" -> <<"[object Object]">>

\* arr.filter(p => typeof p === 'string' && p.trim() !== '')
RECURSIVE FilterStrings(_)
FilterStrings(elems) ==
    IF elems = <<>> THEN <<>>
    ELSE IF IsString(Head(elems)) /\ Trim(Head(elems).s) # <<>>
         THEN <<Head(elems).s>> \o FilterStrings(Tail(elems))
         ELSE FilterStrings(Tail(elems))

\* acc[key] = value on the accumulator {} of the reduce, value a string: an
\* own property <<key, value>>, except for the key __proto__, which is the
\* accessor inherited from Object.prototype: its setter ignores a value that
\* is neither an object nor null, and no own property is created.
\* (JSON.parse does create an own property of that name, so Object.entries
\* of the parsed scores lists it.)
PROTO == <<"__proto__">>
Assign(key, value) == IF key = PROTO THEN <<>> ELSE << <<key, value>> >>

\* Object.entries(opt.scores).reduce(...) : the accumulator as <<key, value>>
\* pairs in insertion order.  Keys that are array indices, which a JavaScript
\* object lists first, are not among the keys drawn here.
RECURSIVE ReduceScores(_, _)
ReduceScores(ks, vs) ==
    IF ks = <<>> THEN <<>>
    ELSE IF IsString(Head(vs)) THEN Assign(Head(ks), Head(vs).s) \o ReduceScores(Tail(ks), Tail(vs))
    ELSE IF Head(vs).t \notin {"null", "undefined"}
         THEN Assign(Head(ks), JsString(Head(vs))) \o ReduceScores(Tail(ks), Tail(vs))
    ELSE ReduceScores(Tail(ks), Tail(vs))

\* Object.entries of an array are its indices with its elements
DigitSeq == <<"0", "1", "2", "3", "4", "5", "6", "7", "8", "9">>
RECURSIVE ToDigits(_)
ToDigits(n) == IF n < 10 THEN <<DigitSeq[n + 1]>> ELSE ToDigits(n \div 10) \o <<DigitSeq[(n % 10) + 1]>>
RECURSIVE IndexKeys(_, _)
IndexKeys(n, i) == IF i >= n THEN <<>> ELSE <<ToDigits(i)>> \o IndexKeys(n, i + 1)

Scores(v) ==
    IF Falsy(v) \/ ~TypeofObject(v) THEN <<>>
    ELSE IF v.t = "obj" THEN ReduceScores(v.keys, v.kids)
    ELSE ReduceScores(IndexKeys(Len(v.kids), 0), v.kids)

\* validateOption(option, index): [ok, value] or a NormalizationError
validateOption(option, index) ==
    LET name == Get(option, <<"name">>)
        pros == Get(option, <<"pros">>)
        cons == Get(option, <<"cons">>)
    IN IF Falsy(option) \/ ~TypeofObject(option)
       THEN NormalizationError("Option at index is not a valid object", index, <<>>)
       ELSE IF ~IsString(name) \/ IsBlank(name.s)
       THEN NormalizationError("Option at index is missing a valid 'name' field", index, <<>>)
       ELSE IF ~IsArray(pros)
       THEN NormalizationError("Option is missing 'pros' array", NoIndex, name.s)
       ELSE IF ~IsArray(cons)
       THEN NormalizationError("Option is missing 'cons' array", NoIndex, name.s)
       ELSE [ok |-> TRUE,
             value |-> [name |-> Trim(name.s),
                        pros |-> FilterStrings(pros.kids),
                        cons |-> FilterStrings(cons.kids),
                        scores |-> Scores(Get(option, <<"scores">>))]]

\* validateTradeOff without its check of 'recommendation'
validateTradeOff_NoRecommendationCheck(tradeOff, index) ==
    LET scenario == Get(tradeOff, <<"scenario">>)
        recommendation == Get(tradeOff, <<"recommendation">>)
        null == [ok |-> FALSE, value |-> [scenario |-> <<>>, recommendation |-> <<>>]]
    IN IF Falsy(tradeOff) \/ ~TypeofObject(tradeOff) THEN null
       ELSE IF ~IsString(scenario) \/ IsBlank(scenario.s) THEN null
       ELSE [ok |-> TRUE,
             value |-> [scenario |-> Trim(scenario.s),
                        recommendation |-> Trim(recommendation.s)]]

\* validateTradeOff(tradeOff, index): [ok, value]; ok = FALSE is the null result
validateTradeOff(tradeOff, index) ==
    LET scenario == Get(tradeOff, <<"scenario">>)
        recommendation == Get(tradeOff, <<"recommendation">>)
        null == [ok |-> FALSE, value |-> [scenario |-> <<>>, recommendation |-> <<>>]]
    IN IF Falsy(tradeOff) \/ ~TypeofObject(tradeOff) THEN null
       ELSE IF ~IsString(scenario) \/ IsBlank(scenario.s) THEN null
       ELSE IF ~IsString(recommendation) \/ IsBlank(recommendation.s) THEN null
       ELSE [ok |-> TRUE,
             value |-> [scenario |-> Trim(scenario.s),
                        recommendation |-> Trim(recommendation.s)]]

\* options.map that drops an invalid entry instead of throwing
RECURSIVE MapOptions_DropInvalid(_, _, _)
MapOptions_DropInvalid(elems, i, acc) ==
    IF i > Len(elems) THEN [ok |-> TRUE, options |-> acc]
    ELSE LET r == validateOption(elems[i], i - 1)
         IN MapOptions_DropInvalid(elems, i + 1, IF r.ok THEN Append(acc, r.value) ELSE acc)

\* response.options.map((opt, index) => validateOption(opt, index)) : the
\* first invalid entry throws; indices are 0-based
RECURSIVE MapOptions(_, _, _)
MapOptions(elems, i, acc) ==
    IF i > Len(elems) THEN [ok |-> TRUE, options |-> acc]
    ELSE LET r == validateOption(elems[i], i - 1)
         IN IF r.ok THEN MapOptions(elems, i + 1, Append(acc, r.value)) ELSE r

\* response.tradeOffs.map(validateTradeOff).filter(to => to !== null)
RECURSIVE MapTradeOffs(_, _)
MapTradeOffs(elems, i) ==
    IF i > Len(elems) THEN <<>>
    ELSE LET r == validateTradeOff(elems[i], i - 1)
         IN (IF r.ok THEN <<r.value>> ELSE <<>>) \o MapTradeOffs(elems, i + 1)

TradeOffsOf(response) ==
    IF IsArray(Get(response, <<"tradeOffs">>))
    THEN MapTradeOffs(Get(response, <<"tradeOffs">>).kids, 1)
    ELSE <<>>

\* normalizeGrokResponse without its check for an empty options array
normalizeGrokResponse_NoEmptyCheck(raw) ==
    IF raw = <<>> THEN NormalizationError("Response is empty or not a string", NoIndex, <<>>)
    ELSE
    LET parsed == JSONparse(extractJson(raw))
        response == parsed.val
        opts == Get(response, <<"options">>)
        mapped == MapOptions(opts.kids, 1, <<>>)
    IN IF ~parsed.ok
       THEN NormalizationError("Failed to parse JSON response", NoIndex, <<>>)
       ELSE IF Falsy(response) \/ ~TypeofObject(response)
       THEN NormalizationError("Parsed response is not a valid object", NoIndex, <<>>)
       ELSE IF ~IsArray(opts)
       THEN NormalizationError("Response is missing required options array", NoIndex, <<>>)
       ELSE IF ~mapped.ok THEN mapped
       ELSE [ok |-> TRUE, text |-> "", index |-> NoIndex, name |-> <<>>,
             options |-> mapped.options, tradeOffs |-> TradeOffsOf(response)]

\* normalizeGrokResponse(raw): [ok |-> TRUE, options, tradeOffs] or a
\* NormalizationError
normalizeGrokResponse(raw) ==
    IF raw = <<>> THEN NormalizationError("Response is empty or not a string", NoIndex, <<>>)
    ELSE
    LET parsed == JSONparse(extractJson(raw))
        response == parsed.val
        opts == Get(response, <<"options">>)
        mapped == MapOptions(opts.kids, 1, <<>>)
    IN IF ~parsed.ok
       THEN NormalizationError("Failed to parse JSON response", NoIndex, <<>>)
       ELSE IF Falsy(response) \/ ~TypeofObject(response)
       THEN NormalizationError("Parsed response is not a valid object", NoIndex, <<>>)
       ELSE IF ~IsArray(opts)
       THEN NormalizationError("Response is missing required options array", NoIndex, <<>>)
       ELSE IF Len(opts.kids) = 0
       THEN NormalizationError("Response options array is empty", NoIndex, <<>>)
       ELSE IF ~mapped.ok THEN mapped
       ELSE [ok |-> TRUE, text |-> "", index |-> NoIndex, name |-> <<>>,
             options |-> mapped.options, tradeOffs |-> TradeOffsOf(response)]

(***************************************************************************)
(* Inputs of the normalizer.  normalizeGrokResponse is applied to          *)
(*   "doc"    : the JSON text of a document built from the entries below,  *)
(*              bare, inside a code fence, or inside prose;                *)
(*   "result" : JSON.stringify(r) of a well-formed NormalizedResult r;     *)
(*   "text"   : a text that is no JSON document;                           *)
(*   "scores" : the JSON text of a document with one option, valid but for *)
(*              what its scores field may be (nDoc is that field).         *)
(***************************************************************************)
MaxOptions == 2
MaxTradeOffs == 2

Str(sym) == JStr(<<sym>>)
\* an object from <<key symbol, value>> pairs
RECURSIVE Obj(_)
Obj(pairs) ==
    IF pairs = <<>> THEN JObj(<<>>, <<>>)
    ELSE Put(Obj(SubSeq(pairs, 1, Len(pairs) - 1)),
             <<pairs[Len(pairs)][1]>>, pairs[Len(pairs)][2])

\* entries of an "options" array: the first two are valid
OptEntries ==
    << Obj(<< <<"name", Str("A")>>, <<"pros", JArr(<<Str("p")>>)>>,
              <<"cons", JArr(<<>>)>>, <<"scores", Obj(<< <<"cost", Str("low")>> >>)>> >>),
       Obj(<< <<"name", JStr(<<" ", "B", " ">>)>>,
              <<"pros", JArr(<<Str("p"), JNum(<<"1">>), Str(" "), JStr(<<" ", "q">>)>>)>>,
              <<"cons", JArr(<<JNull, JStr(<<"c", NL>>)>>)>> >>),
       JNull,
       Str("A"),
       JArr(<<>>),
       Obj(<< <<"pros", JArr(<<>>)>>, <<"cons", JArr(<<>>)>> >>),
       Obj(<< <<"name", Str(" ")>>, <<"pros", JArr(<<>>)>>, <<"cons", JArr(<<>>)>> >>),
       Obj(<< <<"name", JNum(<<"1">>)>>, <<"pros", JArr(<<>>)>>, <<"cons", JArr(<<>>)>> >>),
       Obj(<< <<"name", Str("C")>>, <<"cons", JArr(<<>>)>> >>),
       Obj(<< <<"name", Str("D")>>, <<"pros", JArr(<<>>)>>, <<"cons", Str("c")>> >>) >>

\* entries of a "tradeOffs" array: the first two are valid
TradeOffEntries ==
    << Obj(<< <<"scenario", Str("x")>>, <<"recommendation", Str("y")>> >>),
       Obj(<< <<"scenario", JStr(<<" ", "s">>)>>, <<"recommendation", JStr(<<"r", " ">>)>>,
              <<"extra", JTrue>> >>),
       Obj(<< <<"scenario", Str("x")>> >>),
       JNull,
       Str("x"),
       Obj(<< <<"scenario", Str(" ")>>, <<"recommendation", Str("y")>> >>),
       Obj(<< <<"scenario", Str("x")>>, <<"recommendation", JNum(<<"1">>)>> >>),
       Obj(<< <<"scenario", Str("x")>>, <<"recommendation", JStr(<<>>)>> >>) >>

\* whole values of the "options" and "tradeOffs" fields
OptionsFields ==
    << JArr(<<OptEntries[1]>>), JArr(<<OptEntries[2], OptEntries[1]>>),
       Undefined, Obj(<< <<"name", Str("A")>> >>), JArr(<<>>) >>
TradeOffsFields ==
    << JArr(<<>>), Undefined, Str("x"), Obj(<< <<"scenario", Str("x")>> >>),
       JArr(<<TradeOffEntries[3]>>) >>

Pick(entries, f) == [i \in DOMAIN f |-> entries[f[i]]]

\* keys and values of a "scores" object, and whole values of the field
MaxScoreKeys == 2
ScoreNames == << <<"cost">>, <<"speed">>, PROTO >>
ScoreValues ==
    << Str("low"), JStr(<<>>), JStr(<<" ", "x">>), JNum(<<"7">>), JNum(<<"0">>), JTrue,
       JFalse, JNull, JArr(<<Str("a"), JNull, JNum(<<"2">>)>>),
       Obj(<< <<"rating", Str("high")>> >>) >>
ScoresFields ==
    << Undefined, JNull, Str("high"), JStr(<<>>), JNum(<<"5">>), JNum(<<"0">>), JTrue, JFalse,
       JArr(<<>>), JArr(<<Str("a"), JNum(<<"1">>), JNull>>) >>
\* sequences of n different positions of ScoreNames
DistinctKeys(n) ==
    {f \in [1..n -> 1..Len(ScoreNames)] : \A i, j \in 1..n : i # j => f[i] # f[j]}
\* an option that is valid but for what its scores may be
OptionWithScores(scores) ==
    Obj(<< <<"name", Str("A")>>, <<"pros", JArr(<<>>)>>, <<"cons", JArr(<<>>)>>,
           <<"scores", scores>> >>)

Document(options, tradeOffs) ==
    Obj(<< <<"options", options>>, <<"tradeOffs", tradeOffs>> >>)

Wrappers == {"bare", "fenced", "fence", "prose", "remark"}
Wrap(w, text) ==
    CASE w = "bare" -> text
      [] w = "fenced" -> <<TICK, TICK, TICK, "json", NL>> \o text \o <<NL, TICK, TICK, TICK>>
      [] w = "fence" -> <<"Sure", ":", NL, TICK, TICK, TICK>> \o text \o <<TICK, TICK, TICK, NL, "Done">>
      [] w = "prose" -> <<"Here", " ", "it", " ", "is", ":", " ">> \o text \o <<" ", "ok">>
      [] w = "remark" -> <<"Result", ":", " ">> \o text
                         \o <<" ", "(", "{", "}", " ", "means", " ", "none", ")">>

\* texts that are no JSON document of the expected shape
Texts ==
    << <<>>, <<" ">>, <<"hello">>, <<"null">>, <<"0">>, <<"7">>, <<"true">>,
       <<QUOTE, "x", QUOTE>>, <<"[", "]">>, <<"{", "}">>,
       <<"[", "{", QUOTE, "name", QUOTE, ":", QUOTE, "A", QUOTE, "}", "]">>,
       <<"{", QUOTE, "tradeOffs", QUOTE, ":", "[", "]", "}">>,
       <<"{", QUOTE, "options", QUOTE, ":", "[">>,
       <<"{", QUOTE, "options", QUOTE, ":", "[", "]", ",", "}">>,
       <<"{", QUOTE, "options", QUOTE, ":", "null", "}">>,
       <<"{", "options", ":", "[", "]", "}">>,
       <<TICK, TICK, TICK, "json", NL, "sorry", NL, TICK, TICK, TICK>>,
       <<TICK, TICK, TICK, TICK, TICK, TICK>>,
       <<TICK, TICK, TICK, "{", "}">>,
       <<"use", " ", "{", "x", "}", " ", "or", " ", "{", "}">>,
       <<"}", "{">> >>

\* strings of a well-formed result: trimmed and not empty
RStrings ==
    << <<"A">>, <<"a", " ", "b">>, <<QUOTE, "q", QUOTE>>, <<BSLASH, "n">>, <<"x", NL, "y">>,
       <<"{", "}">>, <<"}">>, <<TICK, TICK, TICK>>,
       <<TICK, TICK, TICK, "x", TICK, TICK, TICK>> >>

\* options and trade-offs of a well-formed NormalizedResult
ROptions ==
    [i \in 1..Len(RStrings) |->
        [name |-> RStrings[i],
         pros |-> IF i % 2 = 0 THEN <<>> ELSE <<RStrings[i], <<"p">>>>,
         cons |-> IF i % 3 = 0 THEN <<RStrings[i]>> ELSE <<>>,
         scores |-> IF i % 2 = 0 THEN <<>> ELSE << <<RStrings[i], RStrings[Len(RStrings) + 1 - i]>> >>]]
RTradeOffs ==
    << [scenario |-> <<"x">>, recommendation |-> <<"y">>],
       [scenario |-> <<"if", " ", QUOTE, "x", QUOTE>>, recommendation |-> <<"{", "y", "}">>],
       [scenario |-> <<TICK, TICK, TICK>>, recommendation |-> <<"z">>] >>

RTradeOffLists ==
    << <<>>, <<RTradeOffs[1], RTradeOffs[2]>>, <<RTradeOffs[3]>> >>

\* the JSON value of a NormalizedResult, as JSON.stringify walks it
StrArray(xs) == JArr([i \in DOMAIN xs |-> JStr(xs[i])])
ScoreKeys(scores) == [i \in DOMAIN scores |-> scores[i][1]]
ScoreVals(scores) == [i \in DOMAIN scores |-> JStr(scores[i][2])]
OptionToJson(o) ==
    JObj(<< <<"name">>, <<"pros">>, <<"cons">>, <<"scores">> >>,
         << JStr(o.name), StrArray(o.pros), StrArray(o.cons),
            JObj(ScoreKeys(o.scores), ScoreVals(o.scores)) >>)
TradeOffToJson(t) ==
    JObj(<< <<"scenario">>, <<"recommendation">> >>, << JStr(t.scenario), JStr(t.recommendation) >>)
ResultToJson(r) ==
    JObj(<< <<"options">>, <<"tradeOffs">> >>,
         << JArr([i \in DOMAIN r.options |-> OptionToJson(r.options[i])]),
            JArr([i \in DOMAIN r.tradeOffs |-> TradeOffToJson(r.tradeOffs[i])]) >>)

VARIABLES
    nKind,   \* how the input was drawn: "doc", "result" or "text"
    nDoc,    \* the document (a JSON value), or the NormalizedResult r
    nRaw,    \* raw: the text handed to normalizeGrokResponse
    nPc,     \* "ready", then "done" once normalizeGrokResponse has returned or thrown
    nOut     \* what it returned or threw

nvars == <<nKind, nDoc, nRaw, nPc, nOut>>

NotRun == NormalizationError("not run", NoIndex, <<>>)

InitDoc ==
    \E w \in Wrappers :
        /\ nKind = "doc"
        /\ \/ \E n \in 0..MaxOptions : \E f \in [1..n -> 1..Len(OptEntries)] :
              \E t \in 1..Len(TradeOffsFields) :
                 nDoc = Document(JArr(Pick(OptEntries, f)), TradeOffsFields[t])
           \/ \E o \in 1..Len(OptionsFields) : \E m \in 0..MaxTradeOffs :
              \E g \in [1..m -> 1..Len(TradeOffEntries)] :
                 nDoc = Document(OptionsFields[o], JArr(Pick(TradeOffEntries, g)))
        /\ nRaw = Wrap(w, JSONstringify(nDoc))

InitResult ==
    /\ nKind = "result"
    /\ \E n \in 1..MaxOptions : \E f \in [1..n -> 1..Len(ROptions)] :
       \E t \in 1..Len(RTradeOffLists) :
          nDoc = [options |-> Pick(ROptions, f), tradeOffs |-> RTradeOffLists[t]]
    /\ nRaw = JSONstringify(ResultToJson(nDoc))

InitScores ==
    /\ nKind = "scores"
    /\ \/ \E i \in 1..Len(ScoresFields) : nDoc = ScoresFields[i]
       \/ \E n \in 0..MaxScoreKeys : \E f \in DistinctKeys(n) :
          \E g \in [1..n -> 1..Len(ScoreValues)] :
             nDoc = JObj(Pick(ScoreNames, f), Pick(ScoreValues, g))
    /\ nRaw = JSONstringify(Document(JArr(<<OptionWithScores(nDoc)>>), Undefined))

InitText ==
    /\ nKind = "text"
    /\ nDoc = JNull
    /\ \E i \in 1..Len(Texts) : nRaw = Texts[i]

(***************************************************************************)
(* validateComparison                                                      *)
(***************************************************************************)
\* typeof value === 'string' && value.trim().length > 0
isNonEmptyString(value) == IsString(value) /\ Len(Trim(value.s)) > 0

\* the errors of one array: [text, index], index 0-based
RECURSIVE validateStringArray(_, _, _)
validateStringArray(arr, fieldName, i) ==
    IF i > Len(arr) THEN <<>>
    ELSE (IF ~isNonEmptyString(arr[i])
          THEN <<[field |-> fieldName, text |-> "must be a non-empty string", index |-> i - 1]>>
          ELSE <<>>) \o validateStringArray(arr, fieldName, i + 1)

\* the errors of body.options (minimum 2) or body.constraints (minimum 1),
\* with the minimum left out of the check
FieldErrors_NoMinimum(v, fieldName, minimum, tooFew) ==
    IF Falsy(v) THEN <<[field |-> fieldName, text |-> "is required", index |-> NoIndex]>>
    ELSE IF ~IsArray(v)
    THEN <<[field |-> fieldName, text |-> "must be an array", index |-> NoIndex]>>
    ELSE validateStringArray(v.kids, fieldName, 1)

\* the errors of body.options (minimum 2) or body.constraints (minimum 1)
FieldErrors(v, fieldName, minimum, tooFew) ==
    IF Falsy(v) THEN <<[field |-> fieldName, text |-> "is required", index |-> NoIndex]>>
    ELSE IF ~IsArray(v)
    THEN <<[field |-> fieldName, text |-> "must be an array", index |-> NoIndex]>>
    ELSE (IF Len(v.kids) < minimum
          THEN <<[field |-> fieldName, text |-> tooFew, index |-> NoIndex]>>
          ELSE <<>>) \o validateStringArray(v.kids, fieldName, 1)

\* arr.map(o => o.trim()) as a JSON array
TrimAll(arr) == JArr([i \in DOMAIN arr.kids |-> JStr(Trim(arr.kids[i].s))])

\* validateComparisonRequest(req, res, next): what it sends, whether it calls
\* next(), and req.body afterwards
validateComparisonRequest(body) ==
    LET errors == FieldErrors(Get(body, <<"options">>), "options", 2,
                              "At least 2 options are required")
                  \o FieldErrors(Get(body, <<"constraints">>), "constraints", 1,
                                 "At least 1 constraint is required")
    IN IF Len(errors) > 0
       THEN [next |-> FALSE, body |-> body,
             res |-> [status |-> 400, error |-> "validation_error",
                      message |-> "Invalid comparison request", details |-> errors]]
       ELSE [next |-> TRUE,
             body |-> JObj(<< <<"options">>, <<"constraints">> >>,
                           << TrimAll(Get(body, <<"options">>)),
                              TrimAll(Get(body, <<"constraints">>)) >>),
             res |-> [status |-> 0, error |-> "", message |-> "", details |-> <<>>]]

\* values of the options and constraints fields of a request body
BodyOptions ==
    << Undefined, JNull, JStr(<<>>), JStr(<<"A", ",", "B">>), JNum(<<"0">>), JArr(<<>>),
       JArr(<<JStr(<<"A">>)>>), JArr(<<JStr(<<"A">>), JStr(<<"B">>)>>),
       JArr(<<JStr(<<" ", "A", " ">>), JStr(<<"B">>), JStr(<<"C", " ", "D", NL>>)>>),
       JArr(<<JStr(<<"A">>), JStr(<<" ">>)>>), JArr(<<JStr(<<"A">>), JNum(<<"1">>)>>),
       JArr(<<JNull, JStr(<<"B">>)>>), JArr(<<JStr(<<"A">>), JArr(<<JStr(<<"B">>)>>)>>),
       JObj(<< <<"0">>, <<"1">>, <<"length">> >>, <<JStr(<<"A">>), JStr(<<"B">>), JNum(<<"2">>)>>) >>
BodyConstraints ==
    << Undefined, JNull, JFalse, JStr(<<"cost">>), JArr(<<>>), JArr(<<JStr(<<"cost">>)>>),
       JArr(<<JStr(<<" ", "cost">>), JStr(<<"speed">>)>>), JArr(<<JStr(<<" ">>)>>),
       JArr(<<JStr(<<"cost">>), JTrue>>) >>
\* the strings of an array of strings
StringSeq(arr) == [i \in DOMAIN arr.kids |-> arr.kids[i].s]

(***************************************************************************)
(* promptBuilder.  A text is a sequence of symbols; each line of the       *)
(* template literal is one symbol, NL the line feed between lines.         *)
(***************************************************************************)
PromptHead ==
    <<

       "You are a neutral technical referee. Compare the following options without declaring a winner.",
       NL, NL, "OPTIONS TO COMPARE:", NL >>
PromptMiddle ==
    <<
       NL, NL, "CONSTRAINTS TO EVALUATE:", NL >>
PromptTail ==
    <<
       NL, NL, "INSTRUCTIONS:", NL, "1. Analyze each option against ALL constraints", NL,
       "2. List specific pros and cons for each option", NL,
       "3. DO NOT declare a \"best\" or \"winner\" - remain completely neutral", NL,
       "4. Provide trade-off scenarios: \"If you prioritize X, consider Y because...\"",
       NL, "5. Be factual and balanced in your analysis", NL,
       "6. Score each option against each constraint with a brief explanation", NL, NL,
       "OUTPUT FORMAT (respond with valid JSON only, no markdown code blocks):", NL, "{",
       NL, "  \"options\": [", NL, "    {", NL, "      \"name\": \"option name\",", NL,
       "      \"pros\": [\"pro 1\", \"pro 2\"],", NL,
       "      \"cons\": [\"con 1\", \"con 2\"],", NL, "      \"scores\": {", NL,
       "        \"constraint1\": \"rating/explanation\",", NL,
       "        \"constraint2\": \"rating/explanation\"", NL, "      }", NL, "    }", NL,
       "  ],", NL, "  \"tradeOffs\": [", NL, "    {", NL,
       "      \"scenario\": \"When you need...\",", NL,
       "      \"recommendation\": \"Consider X because...\"", NL, "    }", NL, "  ]", NL,
       "}", NL, NL, "IMPORTANT: ", NL,
       "- Return ONLY valid JSON, no additional text or markdown formatting", NL,
       "- Include ALL options provided in your analysis", NL,
       "- Include scores for ALL constraints for each option", NL,
       "- Trade-offs should present balanced scenarios, not recommendations for a single option" >>

\* elems.join('\n')
RECURSIVE JoinLines(_, _)
JoinLines(elems, i) ==
    IF i > Len(elems) THEN <<>>
    ELSE (IF i > 1 THEN <<NL>> ELSE <<>>) \o elems[i] \o JoinLines(elems, i + 1)

\* `${i + 1}. ${o}` with the 0-based index i of map
NumberedFrom(xs, first) == [k \in DOMAIN xs |-> ToDigits(k - 1 + first) \o <<". ">> \o xs[k]]

\* buildComparisonPrompt numbering its lists from 0
buildComparisonPrompt_ZeroBased(options, constraints) ==
    PromptHead \o JoinLines(NumberedFrom(options, 0), 1)
    \o PromptMiddle \o JoinLines(NumberedFrom(constraints, 0), 1) \o PromptTail

buildComparisonPrompt(options, constraints) ==
    PromptHead \o JoinLines(NumberedFrom(options, 1), 1)
    \o PromptMiddle \o JoinLines(NumberedFrom(constraints, 1), 1) \o PromptTail

\* options and constraints the prompt is built from
MaxPromptItems == 2
PromptOptions == << <<"AWS">>, <<"Google", " ", "Cloud">>, <<"cost">>, <<"winner">> >>
PromptConstraints == << <<"cost">>, <<"ease", " ", "of", " ", "use">>, <<"AWS">> >>

(***************************************************************************)
(* grokService                                                             *)
(***************************************************************************)
MAX_RETRIES == 3
BASE_DELAY_MS == 1000

RECURSIVE Pow2(_)
Pow2(n) == IF n <= 0 THEN 1 ELSE 2 * Pow2(n - 1)

\* statusCode === undefined
NoStatusCode == 0 - 1

\* the statuses the endpoint answers with, and response.ok
Statuses == {200, 401, 404, 429, 500}
ResponseOk(status) == status >= 200 /\ status <= 299

\* createGrokError(message, statusCode)
createGrokError_RateLimitOnly(message, statusCode) ==
    [isGrokApiError |-> TRUE, message |-> message, statusCode |-> statusCode,
     isRetryable |-> statusCode # NoStatusCode /\ statusCode = 429]
createGrokError(message, statusCode) ==
    [isGrokApiError |-> TRUE, message |-> message, statusCode |-> statusCode,
     isRetryable |-> statusCode # NoStatusCode /\ (statusCode = 429 \/ statusCode >= 500)]

\* an error that is no GrokApiError (a TypeError of fetch, of the body stream,
\* of reading a property of null; a SyntaxError of response.json()):
\* its isRetryable is undefined
OtherError(message) ==
    [isGrokApiError |-> FALSE, message |-> message, statusCode |-> NoStatusCode,
     isRetryable |-> FALSE]
NoError == OtherError(<<>>)

\* raw completions the endpoint may put into choices[0].message.content
Contents ==
    << <<TICK, TICK, TICK, "json", NL>>
         \o JSONstringify(Document(JArr(<<Obj(<< <<"name", Str("A")>>, <<"pros", JArr(<<>>)>>,
                 <<"cons", JArr(<<>>)>>, <<"scores", Obj(<<>>)>> >>)>>), Undefined))
         \o <<NL, TICK, TICK, TICK>>,
       JSONstringify(Document(JArr(<<OptEntries[1], OptEntries[2]>>),
                              JArr(<<TradeOffEntries[1], TradeOffEntries[3]>>))),
       <<"{", QUOTE, "tradeOffs", QUOTE, ":", "[", "]", "}">>,
       <<"I", " ", "cannot", " ", "help">>,
       JSONstringify(Document(JArr(<<OptEntries[1], OptEntries[9]>>), Undefined)),
       JSONstringify(Document(JArr(<<Obj(<< <<"name", Str("B")>>, <<"pros", JArr(<<>>)>>,
                 <<"cons", JArr(<<>>)>> >>)>>), Undefined)) >>

\* What one fetch meets.
\*   kind "network" : fetch rejects
\*   kind "http"    : a response with a status; body says what reading it gives
\*     not ok : "text" (response.text() resolves) | "unreadable" (it rejects)
\*     ok     : "unreadable" (response.json() rejects), "null" (the body is
\*              null), "noChoices", "emptyChoices", "noMessage", "noContent",
\*              "emptyContent", "content" (choices[0].message.content is
\*              Contents[content])
ErrorBodies == {"text", "unreadable"}
OkBodies == {"unreadable", "null", "noChoices", "emptyChoices", "noMessage", "noContent",
             "emptyContent", "content"}
Outcome(kind, status, body, content) ==
    [kind |-> kind, status |-> status, body |-> body, content |-> content]
\* (the last of Contents is met by the concurrent calls only)
Outcomes ==
    {Outcome("network", 0, "none", 0)}
    \cup {Outcome("http", st, b, 0) : st \in {x \in Statuses : ~ResponseOk(x)}, b \in ErrorBodies}
    \cup {Outcome("http", st, b, 0) : st \in {x \in Statuses : ResponseOk(x)}, b \in OkBodies \ {"content"}}
    \cup {Outcome("http", st, "content", c) :
             st \in {x \in Statuses : ResponseOk(x)}, c \in 1..(Len(Contents) - 1)}

\* const delayMs = BASE_DELAY_MS * Math.pow(2, attempt - 1)
DelayMs_Fixed(attempt) == BASE_DELAY_MS
DelayMs(attempt) == BASE_DELAY_MS * Pow2(attempt - 1)

\* What the body of the loop comes to: return a string, throw an error out of
\* callGrokWithRetry, or wait delayMs and go on with the next attempt.
Return(value) == [k |-> "return", value |-> value, error |-> NoError, delayMs |-> 0]
Throw(error) == [k |-> "throw", value |-> <<>>, error |-> error, delayMs |-> 0]
DelayThenContinue(ms) == [k |-> "delay", value |-> <<>>, error |-> NoError, delayMs |-> ms]

\* the try block, lines 98-149; Throw here is a throw into the catch block
TryBlock(o, attempt, maxRetries) ==
    IF o.kind = "network" THEN Throw(OtherError(<<"fetch failed">>))
    ELSE IF ~ResponseOk(o.status) THEN
        IF o.body = "unreadable" THEN Throw(OtherError(<<"terminated">>))
        ELSE LET error == createGrokError(<<"Groq API error: ">> \o ToDigits(o.status)
                                            \o <<" - ", "errorBody">>, o.status)
             IN IF ~error.isRetryable \/ attempt = maxRetries THEN Throw(error)
                ELSE DelayThenContinue(DelayMs(attempt))
    ELSE IF o.body = "unreadable" THEN Throw(OtherError(<<"Unexpected token">>))
    ELSE IF o.body = "null" THEN Throw(OtherError(<<"Cannot read properties of null">>))
    ELSE IF o.body \in {"noChoices", "emptyChoices", "noMessage"}
         THEN Throw(createGrokError(<<"Invalid response structure from Groq API">>, NoStatusCode))
    ELSE IF o.body = "content" THEN Return(Contents[o.content])
    ELSE Return(<<>>)   \* content || ''

\* the catch block, lines 150-170; Throw here leaves callGrokWithRetry
CatchBlock(error, attempt, maxRetries) ==
    IF error.isGrokApiError THEN
        IF ~error.isRetryable \/ attempt = maxRetries THEN Throw(error)
        ELSE DelayThenContinue(DelayMs(attempt))
    ELSE IF attempt = maxRetries
         THEN Throw(createGrokError(<<"Groq API request failed after ">> \o ToDigits(maxRetries)
                                      \o <<" attempts: ">> \o error.message, NoStatusCode))
    ELSE DelayThenContinue(DelayMs(attempt))

\* one pass of the loop body for what the fetch meets
LoopBody(o, attempt, maxRetries) ==
    LET t == TryBlock(o, attempt, maxRetries)
    IN IF t.k = "throw" THEN CatchBlock(t.error, attempt, maxRetries) ELSE t

\* for (let attempt = 1; attempt <= maxRetries; attempt++)
LoopCondition_OneMore(attempt, maxRetries) == attempt <= maxRetries + 1
LoopCondition(attempt, maxRetries) == attempt <= maxRetries

(***************************************************************************)
(* comparisonService and comparisonController                              *)
(***************************************************************************)
\* new ComparisonServiceError(message, code, statusCode)
ComparisonServiceError(message, code, statusCode) ==
    [isServiceError |-> TRUE, message |-> message, code |-> code, statusCode |-> statusCode]

\* the errors executeComparison throws, by step
StoreRequestError ==
    ComparisonServiceError(<<"Failed to store comparison request">>, "database_error", 500)
StoreResultError_Raw ==
    [isServiceError |-> FALSE, message |-> <<"connection terminated">>, code |-> "",
     statusCode |-> 0]
StoreResultError ==
    ComparisonServiceError(<<"Failed to store comparison result">>, "database_error", 500)
AiServiceError_500(errorMessage) ==
    ComparisonServiceError(<<"AI service is currently unavailable: ">> \o errorMessage,
                           "ai_service_error", 500)
AiServiceError(errorMessage) ==
    ComparisonServiceError(<<"AI service is currently unavailable: ">> \o errorMessage,
                           "ai_service_error", 502)
\* step 4, the catch of a NormalizationError
NormalizationFailure_Diagnostic(error) ==
    ComparisonServiceError(<<error.text>> \o error.name, "normalization_error", 502)
NormalizationFailure(error) ==
    ComparisonServiceError(<<"Failed to process AI response. Please try again.">>,
                           "normalization_error", 502)

NoId == 0
NoRecord == [id |-> NoId, options |-> <<>>, tradeOffs |-> <<>>]
NoResponse == [status |-> 0, error |-> "", message |-> <<>>, record |-> NoRecord]

\* createComparison: res.status(200).json(result)
Respond200(record) == [status |-> 200, error |-> "", message |-> <<>>, record |-> record]
\* createComparison: the catch block
RespondError(error) ==
    IF error.isServiceError
    THEN [status |-> error.statusCode, error |-> error.code, message |-> error.message,
          record |-> NoRecord]
    ELSE [status |-> 500, error |-> "internal_error",
          message |-> <<"An unexpected error occurred">>, record |-> NoRecord]

\* validated request bodies
Inputs ==
    << [options |-> << <<"AWS">>, <<"Azure">> >>, constraints |-> << <<"cost">> >>],
       [options |-> << <<"A">>, <<"B">>, <<"C">> >>, constraints |-> << <<"cost">>, <<"speed">> >>] >>

\* the steps of executeComparison
Steps ==
    <<"storeComparisonRequest", "buildComparisonPrompt", "callGrokWithRetry",
      "normalizeGrokResponse", "storeComparisonResult">>

MaxRuns == 2
MaxRetriesArg == 2
\* concurrent executeComparison calls
MaxCalls == 2
Calls == 1..MaxCalls

\* the request body of concurrent call p
InputOf(p) == Inputs[((p - 1) % Len(Inputs)) + 1]
\* what the fetches of concurrent calls meet
ConcurrentOutcomes ==
    {Outcome("http", 500, "text", 0), Outcome("http", 401, "text", 0),
     Outcome("http", 200, "content", 1), Outcome("http", 200, "content", 6)}
\* the locals of one executeComparison call (and of the callGrokWithRetry
\* and createComparison around it) before it starts
IdleCall(p) ==
    [pc |-> "idle", input |-> InputOf(p), comparisonId |-> NoId, attempt |-> 0,
     requests |-> 0, last |-> Outcome("none", 0, "none", 0), rawResponse |-> <<>>,
     normalizedResult |-> NotRun, failedAt |-> "", response |-> NoResponse]

VARIABLES
    calls          \* the locals of each concurrent executeComparison call

VARIABLES
    apiKeySet,     \* process.env.GROQ_API_KEY is set
    runs,          \* invocations started so far
    mode,          \* "none" | "compare" (POST /compare) | "direct" (callGrokWithRetry called by itself)
    pc,            \* executeComparison: "idle" | the step about to run | "done"
    input,         \* the ComparisonInput
    comparisonId,  \* the id storeComparisonRequest returned, or NoId
    rawResponse,   \* what callGrokWithRetry returned
    normalizedResult,
    failedAt,      \* the step that threw, or ""
    trace,         \* the steps executeComparison has run, in order
    response,      \* what createComparison sent
    nextId,        \* the next id of the comparisons table
    dbRequests,    \* rows of comparisons
    dbResults,     \* rows of comparison_results
    gpc,           \* callGrokWithRetry: "idle" | "getApiKey" | "loop" | "delay" | "returned" | "threw"
    maxRetries,
    attempt,
    outcomes,      \* what each fetch of this invocation met, in order
    waits,         \* the delays of this invocation, in order
    gResult,       \* the string returned
    gError,        \* the error thrown
    cancelledAt    \* the attempt that was in flight when the caller gave up, or 0

VARIABLES
    pInput,        \* buildComparisonPrompt: its two arguments
    prompt         \* the text it returned, <<>> before the call

promptvars == <<pInput, prompt>>
PromptIdle == pInput = [options |-> <<>>, constraints |-> <<>>] /\ prompt = <<>>

VARIABLES
    received,      \* POST /compare: the body express.json() parsed
    reqBody,       \* req.body
    vPc,           \* "none" | "received" | "rejected" (400 sent) | "next" (next() called)
                   \* | "handled" (createComparison has called executeComparison)
    vRes           \* what validateComparisonRequest sent

reqvars == <<received, reqBody, vPc, vRes>>
NoValidationError == [status |-> 0, error |-> "", message |-> "", details |-> <<>>]
RequestIdle ==
    received = Undefined /\ reqBody = Undefined /\ vPc = "none" /\ vRes = NoValidationError

\* pg's Pool: new Pool({ connectionString }) sets no max, so the pool hands
\* out at most 10 clients; connect() with all of them checked out waits until
\* one is released (no connectionTimeoutMillis is set either)
PoolMax == 10
\* health checks received
MaxHealthChecks == 11
\* what the fetch of GET /models meets
ProbeOutcomes ==
    {Outcome("network", 0, "none", 0)}
    \cup {Outcome("http", st, "text", 0) : st \in Statuses}
NoProbe == Outcome("none", 0, "none", 0)

VARIABLES
    poolHeld,      \* clients checked out of the pool and not released
    idbPc,         \* initializeDatabase: "connect" | "query1" | "query2" | "done" | "threw"
    hCount,        \* GET /health requests received
    hPc,           \* healthCheck: "idle" | "probing" | "responded"
    dbPc,          \* checkConnection: "idle" | "connect" | "query" | "returned"
    dbConnected,   \* what it returned
    grokPc,        \* checkGrokConnection: "idle" | "fetch" | "returned"
    probeMet,      \* what its fetch met, NoProbe if there was none
    grokConnected, \* what it returned
    hResponse      \* what healthCheck sent

healthvars ==
    <<poolHeld, idbPc, hCount, hPc, dbPc, dbConnected, grokPc, probeMet, grokConnected, hResponse>>
NoHealthResponse == [statusCode |-> 0, status |-> "", database |-> "", grokApi |-> ""]
\* the server is listening and no health check has arrived
HealthIdle ==
    /\ poolHeld = 0 /\ idbPc = "done" /\ hCount = 0 /\ hPc = "idle"
    /\ dbPc = "idle" /\ dbConnected = FALSE
    /\ grokPc = "idle" /\ probeMet = NoProbe /\ grokConnected = FALSE
    /\ hResponse = NoHealthResponse

\* fields of the form
MaxOptionFields == 3
MaxConstraintFields == 2

VARIABLES
    fOptions,      \* ComparisonForm: useState(['', ''])
    fConstraints,  \* useState([''])
    fErrors,       \* useState({}): the message per list, "" for none
    fPayload,      \* the request handed to onSubmit while its promise is pending
    fAwaiting,     \* onSubmit is pending; the parent renders the form with isLoading
    fLast          \* the handler called last, with its index for the remove handlers

formvars == <<fOptions, fConstraints, fErrors, fPayload, fAwaiting, fLast>>
NoFormErrors == [options |-> "", constraints |-> ""]
NoPayload == [options |-> <<>>, constraints |-> <<>>]
\* the form as mounted
FormMounted ==
    /\ fOptions = << <<>>, <<>> >> /\ fConstraints = << <<>> >>
    /\ fErrors = NoFormErrors /\ fPayload = NoPayload /\ fAwaiting = FALSE
    /\ fLast = <<"none">>

\* submits of the home page
MaxSubmits == 2

VARIABLES
    comparisonResult,  \* App: useState(null); <<>> is null, <<r>> a response
    isLoading,         \* App: useState(false)
    appError,          \* App: useState(null); <<>> is null, <<m>> a message
    route,             \* the location of the BrowserRouter
    homePc,            \* where HomePage.handleSubmit stands
    posted,            \* the request given to postCompare
    settled,           \* what await postCompare(request) produced
    submits            \* calls of HomePage.handleSubmit so far

homevars == <<comparisonResult, isLoading, appError, route, homePc, posted, settled, submits>>
NotSettled == [ok |-> FALSE, data |-> 0, isError |-> FALSE, message |-> <<>>]
\* the App as mounted at "/"
AppMounted ==
    /\ comparisonResult = <<>> /\ isLoading = FALSE /\ appError = <<>>
    /\ route = "/" /\ homePc = "idle" /\ posted = NoPayload /\ settled = NotSettled
    /\ submits = 0

auxvars == <<promptvars, reqvars, healthvars, formvars, homevars>>
InitAux == PromptIdle /\ RequestIdle /\ HealthIdle /\ FormMounted /\ AppMounted

othervars == <<nKind, nDoc, nRaw, nPc, nOut, calls, auxvars>>
gvars == <<gpc, maxRetries, attempt, outcomes, waits, gResult, gError, cancelledAt>>
evars == <<mode, pc, input, comparisonId, rawResponse, normalizedResult, failedAt, trace, response>>
dbvars == <<nextId, dbRequests, dbResults>>
mainvars == <<apiKeySet, runs, mode, pc, input, comparisonId, rawResponse, normalizedResult,
              failedAt, trace, response, nextId, dbRequests, dbResults,
              gpc, maxRetries, attempt, outcomes, waits, gResult, gError, cancelledAt>>
vars == <<auxvars, nKind, nDoc, nRaw, nPc, nOut, calls, apiKeySet, runs, mode, pc, input, comparisonId,
          rawResponse, normalizedResult, failedAt, trace, response, nextId, dbRequests,
          dbResults, gpc, maxRetries, attempt, outcomes, waits, gResult, gError, cancelledAt>>

\* the number of fetch calls of this invocation
requests == Len(outcomes)

InitMain ==
    /\ calls = [p \in Calls |-> IdleCall(p)]
    /\ runs = 0 /\ mode = "none" /\ pc = "idle"
    /\ input = Inputs[1] /\ comparisonId = NoId
    /\ rawResponse = <<>> /\ normalizedResult = NotRun
    /\ failedAt = "" /\ trace = <<>> /\ response = NoResponse
    /\ nextId = 1 /\ dbRequests = <<>> /\ dbResults = <<>>
    /\ gpc = "idle" /\ maxRetries = MAX_RETRIES /\ attempt = 0
    /\ outcomes = <<>> /\ waits = <<>> /\ gResult = <<>> /\ gError = NoError /\ cancelledAt = 0

Init ==
    /\ apiKeySet \in BOOLEAN
    /\ InitMain
    /\ nKind = "none" /\ nDoc = JNull /\ nRaw = <<>> /\ nPc = "idle" /\ nOut = NotRun
    /\ InitAux

\* no invocation is under way
Quiet == pc \in {"idle", "done"} /\ gpc \in {"idle", "returned", "threw"}

\* callGrokWithRetry is entered with maxRetries = m
EnterGrok(m) ==
    /\ gpc' = "getApiKey" /\ maxRetries' = m /\ attempt' = 0
    /\ outcomes' = <<>> /\ waits' = <<>> /\ gResult' = <<>> /\ gError' = NoError
    /\ cancelledAt' = 0

\* POST /compare: createComparison calls executeComparison, which issues the
\* INSERT of storeComparisonRequest
Submit ==
    /\ UNCHANGED othervars
    /\ Quiet /\ runs < MaxRuns
    /\ \E i \in 1..Len(Inputs) : input' = Inputs[i]
    /\ runs' = runs + 1 /\ mode' = "compare" /\ pc' = "storeRequest"
    /\ comparisonId' = NoId /\ rawResponse' = <<>> /\ normalizedResult' = NotRun
    /\ failedAt' = "" /\ trace' = <<>> /\ response' = NoResponse
    /\ gpc' = "idle" /\ maxRetries' = MAX_RETRIES /\ attempt' = 0
    /\ outcomes' = <<>> /\ waits' = <<>> /\ gResult' = <<>> /\ gError' = NoError
    /\ cancelledAt' = 0
    /\ UNCHANGED <<apiKeySet, nextId, dbRequests, dbResults>>

\* callGrokWithRetry called by itself, with any maxRetries
DirectCall ==
    /\ UNCHANGED othervars
    /\ Quiet /\ runs < MaxRuns
    /\ \E m \in 0..MaxRetriesArg : EnterGrok(m)
    /\ runs' = runs + 1 /\ mode' = "direct" /\ pc' = "idle"
    /\ comparisonId' = NoId /\ rawResponse' = <<>> /\ normalizedResult' = NotRun
    /\ failedAt' = "" /\ trace' = <<>> /\ response' = NoResponse
    /\ UNCHANGED <<apiKeySet, input, nextId, dbRequests, dbResults>>

\* executeComparison throws error: createComparison answers
Fail(step, error) ==
    /\ failedAt' = step
    /\ response' = RespondError(error)
    /\ pc' = "done"

\* step 1 with the failure swallowed
StoreRequest_Swallow ==
    /\ UNCHANGED othervars
    /\ pc = "storeRequest"
    /\ trace' = Append(trace, "storeComparisonRequest")
    /\ \/ /\ comparisonId' = nextId
          /\ nextId' = nextId + 1
          /\ dbRequests' = Append(dbRequests, [id |-> nextId, input |-> input])
          /\ pc' = "buildPrompt"
          /\ UNCHANGED <<failedAt, response>>
       \/ /\ failedAt' = "storeComparisonRequest"
          /\ pc' = "buildPrompt"
          /\ UNCHANGED <<comparisonId, nextId, dbRequests, response>>
    /\ UNCHANGED <<apiKeySet, runs, mode, input, rawResponse, normalizedResult, dbResults>>
    /\ UNCHANGED gvars

\* step 1 with a look-up of an earlier row of the same input instead of an INSERT
StoreRequest_Dedup ==
    /\ UNCHANGED othervars
    /\ pc = "storeRequest"
    /\ trace' = Append(trace, "storeComparisonRequest")
    /\ \/ /\ \E i \in 1..Len(dbRequests) : dbRequests[i].input = input
          /\ comparisonId' = (CHOOSE i \in 1..Len(dbRequests) : dbRequests[i].input = input)
          /\ pc' = "buildPrompt"
          /\ UNCHANGED <<failedAt, response, nextId, dbRequests>>
       \/ /\ \A i \in 1..Len(dbRequests) : dbRequests[i].input # input
          /\ comparisonId' = nextId
          /\ nextId' = nextId + 1
          /\ dbRequests' = Append(dbRequests, [id |-> nextId, input |-> input])
          /\ pc' = "buildPrompt"
          /\ UNCHANGED <<failedAt, response>>
       \/ /\ Fail("storeComparisonRequest", StoreRequestError)
          /\ UNCHANGED <<comparisonId, nextId, dbRequests>>
    /\ UNCHANGED <<apiKeySet, runs, mode, input, rawResponse, normalizedResult, dbResults>>
    /\ UNCHANGED gvars

\* step 1: the INSERT of storeComparisonRequest settles
StoreRequest ==
    /\ UNCHANGED othervars
    /\ pc = "storeRequest"
    /\ trace' = Append(trace, "storeComparisonRequest")
    /\ \/ /\ comparisonId' = nextId
          /\ nextId' = nextId + 1
          /\ dbRequests' = Append(dbRequests, [id |-> nextId, input |-> input])
          /\ pc' = "buildPrompt"
          /\ UNCHANGED <<failedAt, response>>
       \/ /\ Fail("storeComparisonRequest", StoreRequestError)
          /\ UNCHANGED <<comparisonId, nextId, dbRequests>>
    /\ UNCHANGED <<apiKeySet, runs, mode, input, rawResponse, normalizedResult, dbResults>>
    /\ UNCHANGED gvars

\* steps 2 and 3: buildComparisonPrompt, then callGrokWithRetry({ prompt })
BuildPromptAndCall ==
    /\ UNCHANGED othervars
    /\ pc = "buildPrompt"
    /\ trace' = trace \o <<"buildComparisonPrompt", "callGrokWithRetry">>
    /\ pc' = "callGrok"
    /\ EnterGrok(MAX_RETRIES)
    /\ UNCHANGED <<apiKeySet, runs, mode, input, comparisonId, rawResponse, normalizedResult,
                   failedAt, response>>
    /\ UNCHANGED dbvars

\* getApiKey with the check of the key left to the first request
GetApiKey_Lazy ==
    /\ UNCHANGED othervars
    /\ gpc = "getApiKey"
    /\ gpc' = "loop" /\ attempt' = 1 /\ UNCHANGED gError
    /\ UNCHANGED <<maxRetries, outcomes, waits, gResult, apiKeySet, runs, cancelledAt>>
    /\ UNCHANGED evars /\ UNCHANGED dbvars

\* const apiKey = getApiKey()
GetApiKey ==
    /\ UNCHANGED othervars
    /\ gpc = "getApiKey"
    /\ IF apiKeySet
       THEN gpc' = "loop" /\ attempt' = 1 /\ UNCHANGED gError
       ELSE /\ gpc' = "threw"
            /\ gError' = createGrokError(<<"GROQ_API_KEY environment variable is not configured">>,
                                         NoStatusCode)
            /\ UNCHANGED attempt
    /\ UNCHANGED <<maxRetries, outcomes, waits, gResult, apiKeySet, runs, cancelledAt>>
    /\ UNCHANGED evars /\ UNCHANGED dbvars

\* The caller of callGrokWithRetry gives up (cancellation, caller-side
\* timeout) while the fetch of this attempt is in flight.  The function takes
\* no signal and fetch is called without one, so nothing of the invocation
\* changes.  (executeComparison, the caller in POST /compare, never gives up.)
CallerCancel ==
    /\ UNCHANGED othervars
    /\ mode = "direct"
    /\ gpc = "loop" /\ LoopCondition(attempt, maxRetries) /\ cancelledAt = 0
    /\ cancelledAt' = attempt
    /\ UNCHANGED <<gpc, maxRetries, attempt, outcomes, waits, gResult, gError, apiKeySet, runs>>
    /\ UNCHANGED evars /\ UNCHANGED dbvars

\* one fetch and the handling of what it meets, up to the return, the throw
\* or the start of the delay
Attempt ==
    /\ UNCHANGED othervars
    /\ gpc = "loop" /\ LoopCondition(attempt, maxRetries)
    /\ \E o \in Outcomes :
        LET r == LoopBody(o, attempt, maxRetries)
        IN /\ outcomes' = Append(outcomes, o)
           /\ gpc' = IF r.k = "return" THEN "returned" ELSE IF r.k = "throw" THEN "threw" ELSE "delay"
           /\ gResult' = r.value
           /\ gError' = r.error
           /\ waits' = IF r.k = "delay" THEN Append(waits, r.delayMs) ELSE waits
    /\ UNCHANGED <<maxRetries, attempt, apiKeySet, runs, cancelledAt>>
    /\ UNCHANGED evars /\ UNCHANGED dbvars

\* the delay is over: attempt++
DelayElapsed ==
    /\ UNCHANGED othervars
    /\ gpc = "delay"
    /\ attempt' = attempt + 1
    /\ gpc' = "loop"
    /\ UNCHANGED <<maxRetries, outcomes, waits, gResult, gError, apiKeySet, runs, cancelledAt>>
    /\ UNCHANGED evars /\ UNCHANGED dbvars

\* the loop is left: throw createGrokError('Unexpected error in retry logic')
LoopExit ==
    /\ UNCHANGED othervars
    /\ gpc = "loop" /\ ~LoopCondition(attempt, maxRetries)
    /\ gpc' = "threw"
    /\ gError' = createGrokError(<<"Unexpected error in retry logic">>, NoStatusCode)
    /\ UNCHANGED <<maxRetries, attempt, outcomes, waits, gResult, apiKeySet, runs, cancelledAt>>
    /\ UNCHANGED evars /\ UNCHANGED dbvars

\* step 3 settles: rawResponse = await callGrokWithRetry(...), or its catch
CallSettled ==
    /\ UNCHANGED othervars
    /\ pc = "callGrok" /\ gpc \in {"returned", "threw"}
    /\ IF gpc = "returned"
       THEN /\ rawResponse' = gResult
            /\ pc' = "normalize"
            /\ UNCHANGED <<failedAt, response>>
       ELSE /\ Fail("callGrokWithRetry", AiServiceError(gError.message))
            /\ UNCHANGED rawResponse
    /\ UNCHANGED <<apiKeySet, runs, mode, input, comparisonId, normalizedResult, trace>>
    /\ UNCHANGED gvars /\ UNCHANGED dbvars

\* step 4: normalizeGrokResponse(rawResponse), then the INSERT of
\* storeComparisonResult is issued
NormalizeStep ==
    /\ UNCHANGED othervars
    /\ pc = "normalize"
    /\ trace' = Append(trace, "normalizeGrokResponse")
    /\ normalizedResult' = normalizeGrokResponse(rawResponse)
    /\ IF normalizedResult'.ok
       THEN pc' = "storeResult" /\ UNCHANGED <<failedAt, response>>
       ELSE Fail("normalizeGrokResponse", NormalizationFailure(normalizedResult'))
    /\ UNCHANGED <<apiKeySet, runs, mode, input, comparisonId, rawResponse>>
    /\ UNCHANGED gvars /\ UNCHANGED dbvars

\* step 5 with the request row of step 1 deleted when the INSERT fails
StoreResult_Rollback ==
    /\ UNCHANGED othervars
    /\ pc = "storeResult"
    /\ trace' = Append(trace, "storeComparisonResult")
    /\ \/ /\ dbResults' = Append(dbResults, [comparison_id |-> comparisonId,
                                              options |-> normalizedResult.options,
                                              tradeOffs |-> normalizedResult.tradeOffs])
          /\ response' = Respond200([id |-> comparisonId,
                                     options |-> normalizedResult.options,
                                     tradeOffs |-> normalizedResult.tradeOffs])
          /\ pc' = "done"
          /\ UNCHANGED <<failedAt, dbRequests>>
       \/ /\ Fail("storeComparisonResult", StoreResultError)
          /\ dbRequests' = SubSeq(dbRequests, 1, Len(dbRequests) - 1)
          /\ UNCHANGED dbResults
    /\ UNCHANGED <<apiKeySet, runs, mode, input, comparisonId, rawResponse, normalizedResult,
                   nextId>>
    /\ UNCHANGED gvars

\* step 5: the INSERT of storeComparisonResult settles; step 6 returns the record
StoreResult ==
    /\ UNCHANGED othervars
    /\ pc = "storeResult"
    /\ trace' = Append(trace, "storeComparisonResult")
    /\ \/ /\ dbResults' = Append(dbResults, [comparison_id |-> comparisonId,
                                              options |-> normalizedResult.options,
                                              tradeOffs |-> normalizedResult.tradeOffs])
          /\ response' = Respond200([id |-> comparisonId,
                                     options |-> normalizedResult.options,
                                     tradeOffs |-> normalizedResult.tradeOffs])
          /\ pc' = "done"
          /\ UNCHANGED failedAt
       \/ /\ Fail("storeComparisonResult", StoreResultError)
          /\ UNCHANGED dbResults
    /\ UNCHANGED <<apiKeySet, runs, mode, input, comparisonId, rawResponse, normalizedResult,
                   nextId, dbRequests>>
    /\ UNCHANGED gvars

Next ==
    \/ Submit \/ DirectCall \/ StoreRequest \/ BuildPromptAndCall \/ GetApiKey \/ Attempt
    \/ DelayElapsed \/ LoopExit \/ CallSettled \/ NormalizeStep \/ StoreResult \/ CallerCancel

Spec == Init /\ [][Next]_vars

(***************************************************************************)
(* Concurrent executeComparison calls: every await is a point where        *)
(* another call may run; the locals are per call, the tables are shared.   *)
(***************************************************************************)
seqvars == <<auxvars, apiKeySet, runs, mode, pc, input, comparisonId, rawResponse, normalizedResult,
             failedAt, trace, response, gpc, maxRetries, attempt, outcomes, waits, gResult,
             gError, cancelledAt>>

InitConcurrent == Init /\ apiKeySet

\* executeComparison throws error in call p: createComparison answers
CFail(p, step, error) ==
    [calls[p] EXCEPT !.pc = "done", !.failedAt = step, !.response = RespondError(error)]

\* POST /compare arrives: executeComparison issues the INSERT of step 1
StartCall(p) ==
    /\ calls[p].pc = "idle"
    /\ calls' = [calls EXCEPT ![p].pc = "storeRequest"]
    /\ UNCHANGED dbvars

\* step 1 settles; on success buildComparisonPrompt, getApiKey and the first
\* fetch follow without an await in between
StoreRequestOf(p) ==
    /\ calls[p].pc = "storeRequest"
    /\ \/ /\ calls' = [calls EXCEPT ![p].comparisonId = nextId, ![p].pc = "callGrok",
                                     ![p].attempt = 1]
          /\ nextId' = nextId + 1
          /\ dbRequests' = Append(dbRequests, [id |-> nextId, input |-> calls[p].input])
          /\ UNCHANGED dbResults
       \/ /\ calls' = [calls EXCEPT ![p] = CFail(p, "storeComparisonRequest", StoreRequestError)]
          /\ UNCHANGED dbvars

\* the fetch of call p settles
AttemptOf(p) ==
    /\ calls[p].pc = "callGrok" /\ LoopCondition(calls[p].attempt, MAX_RETRIES)
    /\ \E o \in ConcurrentOutcomes :
        LET r == LoopBody(o, calls[p].attempt, MAX_RETRIES)
            c == [calls[p] EXCEPT !.requests = @ + 1, !.last = o]
        IN calls' = [calls EXCEPT ![p] =
             IF r.k = "return" THEN [c EXCEPT !.pc = "normalize", !.rawResponse = r.value]
             ELSE IF r.k = "delay" THEN [c EXCEPT !.pc = "delay"]
             ELSE [c EXCEPT !.pc = "done", !.failedAt = "callGrokWithRetry",
                            !.response = RespondError(AiServiceError(r.error.message))]]
    /\ UNCHANGED dbvars

\* the delay of call p is over
DelayElapsedOf(p) ==
    /\ calls[p].pc = "delay"
    /\ calls' = [calls EXCEPT ![p].pc = "callGrok", ![p].attempt = @ + 1]
    /\ UNCHANGED dbvars

\* step 4 of call p, then the INSERT of step 5 is issued
NormalizeOf(p) ==
    /\ calls[p].pc = "normalize"
    /\ LET n == normalizeGrokResponse(calls[p].rawResponse)
       IN calls' = [calls EXCEPT ![p] =
            IF n.ok THEN [calls[p] EXCEPT !.pc = "storeResult", !.normalizedResult = n]
            ELSE [CFail(p, "normalizeGrokResponse", NormalizationFailure(n))
                    EXCEPT !.normalizedResult = n]]
    /\ UNCHANGED dbvars

\* step 5 of call p with the id of the newest request row
StoreResultOf_NewestId(p) ==
    /\ calls[p].pc = "storeResult"
    /\ \/ /\ dbResults' = Append(dbResults, [comparison_id |-> nextId - 1,
                                              options |-> calls[p].normalizedResult.options,
                                              tradeOffs |-> calls[p].normalizedResult.tradeOffs])
          /\ calls' = [calls EXCEPT ![p].pc = "done", ![p].response =
                         Respond200([id |-> nextId - 1,
                                     options |-> calls[p].normalizedResult.options,
                                     tradeOffs |-> calls[p].normalizedResult.tradeOffs])]
       \/ /\ calls' = [calls EXCEPT ![p] = CFail(p, "storeComparisonResult", StoreResultError)]
          /\ UNCHANGED dbResults
    /\ UNCHANGED <<nextId, dbRequests>>

\* step 5 of call p settles; step 6 returns the record
StoreResultOf(p) ==
    /\ calls[p].pc = "storeResult"
    /\ \/ /\ dbResults' = Append(dbResults, [comparison_id |-> calls[p].comparisonId,
                                              options |-> calls[p].normalizedResult.options,
                                              tradeOffs |-> calls[p].normalizedResult.tradeOffs])
          /\ calls' = [calls EXCEPT ![p].pc = "done", ![p].response =
                         Respond200([id |-> calls[p].comparisonId,
                                     options |-> calls[p].normalizedResult.options,
                                     tradeOffs |-> calls[p].normalizedResult.tradeOffs])]
       \/ /\ calls' = [calls EXCEPT ![p] = CFail(p, "storeComparisonResult", StoreResultError)]
          /\ UNCHANGED dbResults
    /\ UNCHANGED <<nextId, dbRequests>>

CStart == (\E p \in Calls : StartCall(p)) /\ UNCHANGED nvars /\ UNCHANGED seqvars
CStoreRequest == (\E p \in Calls : StoreRequestOf(p)) /\ UNCHANGED nvars /\ UNCHANGED seqvars
CAttempt == (\E p \in Calls : AttemptOf(p)) /\ UNCHANGED nvars /\ UNCHANGED seqvars
CDelayElapsed == (\E p \in Calls : DelayElapsedOf(p)) /\ UNCHANGED nvars /\ UNCHANGED seqvars
CNormalize == (\E p \in Calls : NormalizeOf(p)) /\ UNCHANGED nvars /\ UNCHANGED seqvars
CStoreResult == (\E p \in Calls : StoreResultOf(p)) /\ UNCHANGED nvars /\ UNCHANGED seqvars

NextConcurrent ==
    \/ CStart \/ CStoreRequest \/ CAttempt \/ CDelayElapsed \/ CNormalize \/ CStoreResult

SpecConcurrent == InitConcurrent /\ [][NextConcurrent]_vars

InitNormalizer ==
    /\ InitDoc \/ InitResult \/ InitText \/ InitScores
    /\ nPc = "ready"
    /\ nOut = NotRun
    /\ apiKeySet = TRUE
    /\ InitMain
    /\ InitAux

\* normalizedResult = normalizeGrokResponse(rawResponse), or the catch
Normalize ==
    /\ nPc = "ready"
    /\ nOut' = normalizeGrokResponse(nRaw)
    /\ nPc' = "done"
    /\ UNCHANGED <<nKind, nDoc, nRaw, calls>>
    /\ UNCHANGED mainvars
    /\ UNCHANGED auxvars

SpecNormalizer == InitNormalizer /\ [][Normalize]_vars

\* the backend at rest: nothing has been called
Idle ==
    /\ InitMain
    /\ nKind = "none" /\ nDoc = JNull /\ nRaw = <<>> /\ nPc = "idle" /\ nOut = NotRun
backendvars == <<nKind, nDoc, nRaw, nPc, nOut, calls, mainvars>>

(***************************************************************************)
(* buildComparisonPrompt applied to drawn arguments                        *)
(***************************************************************************)
InitPrompt ==
    /\ apiKeySet = TRUE
    /\ Idle /\ RequestIdle /\ HealthIdle /\ FormMounted /\ AppMounted
    /\ \E n \in 1..MaxPromptItems : \E f \in [1..n -> 1..Len(PromptOptions)] :
       \E m \in 1..MaxPromptItems : \E g \in [1..m -> 1..Len(PromptConstraints)] :
          pInput = [options |-> Pick(PromptOptions, f), constraints |-> Pick(PromptConstraints, g)]
    /\ prompt = <<>>

BuildPrompt ==
    /\ prompt = <<>>
    /\ prompt' = buildComparisonPrompt(pInput.options, pInput.constraints)
    /\ UNCHANGED pInput
    /\ UNCHANGED <<reqvars, healthvars, formvars, homevars, backendvars>>

SpecPrompt == InitPrompt /\ [][BuildPrompt]_vars

(***************************************************************************)
(* POST /compare through validateComparisonRequest and createComparison    *)
(***************************************************************************)
InitRequest ==
    /\ apiKeySet = TRUE
    /\ Idle /\ PromptIdle /\ HealthIdle /\ FormMounted /\ AppMounted
    /\ \E o \in 1..Len(BodyOptions) : \E c \in 1..Len(BodyConstraints) :
          received = JObj(<< <<"options">>, <<"constraints">>, <<"note">> >>,
                          << BodyOptions[o], BodyConstraints[c], JStr(<<"x">>) >>)
    /\ reqBody = received /\ vPc = "received" /\ vRes = NoValidationError

\* the first handler of router.post('/compare', ...)
ValidateRequest ==
    LET v == validateComparisonRequest(reqBody)
    IN /\ vPc = "received"
       /\ vPc' = IF v.next THEN "next" ELSE "rejected"
       /\ reqBody' = v.body
       /\ vRes' = v.res
       /\ UNCHANGED <<received, promptvars, healthvars, formvars, homevars, backendvars>>

\* the second handler, run by next(): createComparison destructures req.body
\* and calls executeComparison, which issues the INSERT of step 1
CreateComparison ==
    /\ vPc = "next"
    /\ vPc' = "handled"
    /\ input' = [options |-> StringSeq(Get(reqBody, <<"options">>)),
                 constraints |-> StringSeq(Get(reqBody, <<"constraints">>))]
    /\ runs' = runs + 1 /\ mode' = "compare" /\ pc' = "storeRequest"
    /\ UNCHANGED <<comparisonId, rawResponse, normalizedResult, failedAt, trace, response>>
    /\ UNCHANGED <<apiKeySet, nextId, dbRequests, dbResults>>
    /\ UNCHANGED gvars
    /\ UNCHANGED <<nKind, nDoc, nRaw, nPc, nOut, calls, promptvars, healthvars, formvars,
                   homevars, received, reqBody, vRes>>

\* createComparison calls with the default maxRetries, with which the loop of
\* callGrokWithRetry is never left by its condition
NextRequest ==
    \/ ValidateRequest \/ CreateComparison \/ StoreRequest \/ BuildPromptAndCall \/ GetApiKey
    \/ Attempt \/ DelayElapsed \/ CallSettled \/ NormalizeStep \/ StoreResult

SpecRequest == InitRequest /\ [][NextRequest]_vars

(***************************************************************************)
(* The connection pool: initializeDatabase at start-up, then GET /health   *)
(***************************************************************************)
\* startServer has called initializeDatabase, which awaits pool.connect()
InitHealth ==
    /\ apiKeySet \in BOOLEAN
    /\ Idle /\ PromptIdle /\ RequestIdle /\ FormMounted /\ AppMounted
    /\ poolHeld = 0 /\ idbPc = "connect" /\ hCount = 0 /\ hPc = "idle"
    /\ dbPc = "idle" /\ dbConnected = FALSE
    /\ grokPc = "idle" /\ probeMet = NoProbe /\ grokConnected = FALSE
    /\ hResponse = NoHealthResponse

unhealthvars == <<promptvars, reqvars, formvars, homevars, backendvars>>

\* initializeDatabase: pool.connect() settles; a rejection is thrown to
\* startServer before the try block is entered
InitializeConnect ==
    /\ idbPc = "connect" /\ poolHeld < PoolMax
    /\ \E ok \in BOOLEAN :
         IF ok THEN idbPc' = "query1" /\ poolHeld' = poolHeld + 1
         ELSE idbPc' = "threw" /\ poolHeld' = poolHeld
    /\ UNCHANGED <<hCount, hPc, dbPc, dbConnected, grokPc, probeMet, grokConnected, hResponse>>
    /\ UNCHANGED unhealthvars

\* one CREATE TABLE settles; the last one, or a rejection, leaves the try
\* block through finally { client.release() }
InitializeQuery ==
    /\ idbPc \in {"query1", "query2"}
    /\ \E ok \in BOOLEAN :
         IF ok /\ idbPc = "query1" THEN idbPc' = "query2" /\ poolHeld' = poolHeld
         ELSE /\ idbPc' = IF ok THEN "done" ELSE "threw"
              /\ poolHeld' = poolHeld - 1
    /\ UNCHANGED <<hCount, hPc, dbPc, dbConnected, grokPc, probeMet, grokConnected, hResponse>>
    /\ UNCHANGED unhealthvars

\* GET /health once the server listens: Promise.all calls checkConnection,
\* which awaits pool.connect(), then checkGrokConnection, which throws in
\* getApiKey and returns false from its catch, or awaits its fetch
HealthCheck ==
    /\ idbPc = "done" /\ hPc \in {"idle", "responded"} /\ hCount < MaxHealthChecks
    /\ hCount' = hCount + 1 /\ hPc' = "probing" /\ hResponse' = NoHealthResponse
    /\ dbPc' = "connect" /\ dbConnected' = FALSE
    /\ grokPc' = IF apiKeySet THEN "fetch" ELSE "returned"
    /\ probeMet' = NoProbe /\ grokConnected' = FALSE
    /\ UNCHANGED <<poolHeld, idbPc>>
    /\ UNCHANGED unhealthvars

\* checkConnection: pool.connect() settles once the pool has a client to give
CheckConnect ==
    /\ dbPc = "connect" /\ poolHeld < PoolMax
    /\ \E ok \in BOOLEAN :
         IF ok THEN dbPc' = "query" /\ poolHeld' = poolHeld + 1
         ELSE dbPc' = "returned" /\ poolHeld' = poolHeld
    /\ dbConnected' = FALSE
    /\ UNCHANGED <<idbPc, hCount, hPc, grokPc, probeMet, grokConnected, hResponse>>
    /\ UNCHANGED unhealthvars

\* checkConnection: SELECT 1 settles; release() follows the query inside the
\* try block, the catch block returns false
CheckQuery ==
    /\ dbPc = "query"
    /\ \E ok \in BOOLEAN :
         IF ok THEN dbConnected' = TRUE /\ poolHeld' = poolHeld - 1
         ELSE dbConnected' = FALSE /\ poolHeld' = poolHeld
    /\ dbPc' = "returned"
    /\ UNCHANGED <<idbPc, hCount, hPc, grokPc, probeMet, grokConnected, hResponse>>
    /\ UNCHANGED unhealthvars

\* checkGrokConnection: the fetch settles: response.ok, or false from the catch
CheckFetch ==
    /\ grokPc = "fetch"
    /\ \E o \in ProbeOutcomes :
         probeMet' = o /\ grokConnected' = (o.kind = "http" /\ ResponseOk(o.status))
    /\ grokPc' = "returned"
    /\ UNCHANGED <<poolHeld, idbPc, hCount, hPc, dbPc, dbConnected, hResponse>>
    /\ UNCHANGED unhealthvars

\* healthCheck after Promise.all
HealthRespond ==
    /\ hPc = "probing" /\ dbPc = "returned" /\ grokPc = "returned"
    /\ LET status == IF dbConnected /\ grokConnected THEN "healthy" ELSE "unhealthy"
       IN hResponse' = [statusCode |-> IF status = "healthy" THEN 200 ELSE 503,
                        status |-> status,
                        database |-> IF dbConnected THEN "connected" ELSE "disconnected",
                        grokApi |-> IF grokConnected THEN "connected" ELSE "disconnected"]
    /\ hPc' = "responded"
    /\ UNCHANGED <<poolHeld, idbPc, hCount, dbPc, dbConnected, grokPc, probeMet, grokConnected>>
    /\ UNCHANGED unhealthvars

NextHealth ==
    \/ InitializeConnect \/ InitializeQuery \/ HealthCheck \/ CheckConnect \/ CheckQuery
    \/ CheckFetch \/ HealthRespond

SpecHealth == InitHealth /\ [][NextHealth]_vars

\* every awaited promise settles and every continuation runs
SpecHealthLive ==
    /\ SpecHealth
    /\ WF_vars(InitializeConnect) /\ WF_vars(InitializeQuery) /\ WF_vars(CheckConnect)
    /\ WF_vars(CheckQuery) /\ WF_vars(CheckFetch) /\ WF_vars(HealthRespond)

(***************************************************************************)
(* ComparisonForm                                                          *)
(***************************************************************************)
\* what a field may hold
OptionTexts == {<<>>, <<" ">>, <<"A">>, <<"B">>}
ConstraintTexts == {<<>>, <<" ">>, <<"cost">>}

\* xs.filter(x => x.trim() !== '')
RECURSIVE NonBlankEntries(_)
NonBlankEntries(xs) ==
    IF xs = <<>> THEN <<>>
    ELSE (IF Trim(Head(xs)) # <<>> THEN <<Head(xs)>> ELSE <<>>) \o NonBlankEntries(Tail(xs))

\* xs.filter((_, i) => i !== index), index 0-based
RemoveAt(xs, index) ==
    [k \in 1..(Len(xs) - (IF index + 1 \in 1..Len(xs) THEN 1 ELSE 0)) |->
        IF k < index + 1 THEN xs[k] ELSE xs[k + 1]]

\* validate() counting the fields instead of the non-blank entries
validate_CountFields(options, constraints) ==
    [options |-> IF Len(options) < 2
                 THEN "Please provide at least 2 options to compare" ELSE "",
     constraints |-> IF Len(constraints) < 1
                     THEN "Please provide at least 1 constraint" ELSE ""]

\* validate(): newErrors
validate(options, constraints) ==
    [options |-> IF Len(NonBlankEntries(options)) < 2
                 THEN "Please provide at least 2 options to compare" ELSE "",
     constraints |-> IF Len(NonBlankEntries(constraints)) < 1
                     THEN "Please provide at least 1 constraint" ELSE ""]

\* the body the backend receives for a request of the form:
\* JSON.stringify(request) in postCompare, parsed again by express.json()
RequestBody(request) ==
    JSONparse(JSONstringify(JObj(<< <<"options">>, <<"constraints">> >>,
        << JArr([i \in DOMAIN request.options |-> JStr(request.options[i])]),
           JArr([i \in DOMAIN request.constraints |-> JStr(request.constraints[i])]) >>))).val

unformvars == <<promptvars, reqvars, healthvars, homevars, backendvars>>

InitForm ==
    /\ apiKeySet = TRUE
    /\ Idle /\ PromptIdle /\ RequestIdle /\ HealthIdle
    /\ FormMounted /\ AppMounted

\* every control of the form is disabled while isLoading
addOption ==
    /\ ~fAwaiting /\ Len(fOptions) < MaxOptionFields
    /\ fOptions' = Append(fOptions, <<>>)
    /\ UNCHANGED <<fConstraints, fErrors, fPayload, fAwaiting>>
    /\ fLast' = <<"addOption">>
    /\ UNCHANGED unformvars

\* removeOption(index) without the test of the number of fields
removeOption_Unguarded ==
    /\ ~fAwaiting
    /\ \E index \in 0..(Len(fOptions) - 1) :
         /\ fOptions' = RemoveAt(fOptions, index)
         /\ fLast' = <<"removeOption", index>>
    /\ UNCHANGED <<fConstraints, fErrors, fPayload, fAwaiting>>
    /\ UNCHANGED unformvars

\* removeOption(index), called for any field whatever the number of fields
removeOption ==
    /\ ~fAwaiting
    /\ \E index \in 0..(Len(fOptions) - 1) :
         /\ fOptions' = IF Len(fOptions) > 2 THEN RemoveAt(fOptions, index) ELSE fOptions
         /\ fLast' = <<"removeOption", index>>
    /\ UNCHANGED <<fConstraints, fErrors, fPayload, fAwaiting>>
    /\ UNCHANGED unformvars

updateOption ==
    /\ ~fAwaiting
    /\ \E index \in 0..(Len(fOptions) - 1) : \E value \in OptionTexts :
         fOptions' = [fOptions EXCEPT ![index + 1] = value]
    /\ fErrors' = IF fErrors.options # "" THEN [fErrors EXCEPT !.options = ""] ELSE fErrors
    /\ UNCHANGED <<fConstraints, fPayload, fAwaiting>>
    /\ fLast' = <<"updateOption">>
    /\ UNCHANGED unformvars

addConstraint ==
    /\ ~fAwaiting /\ Len(fConstraints) < MaxConstraintFields
    /\ fConstraints' = Append(fConstraints, <<>>)
    /\ UNCHANGED <<fOptions, fErrors, fPayload, fAwaiting>>
    /\ fLast' = <<"addConstraint">>
    /\ UNCHANGED unformvars

removeConstraint ==
    /\ ~fAwaiting
    /\ \E index \in 0..(Len(fConstraints) - 1) :
         /\ fConstraints' = IF Len(fConstraints) > 1
                            THEN RemoveAt(fConstraints, index) ELSE fConstraints
         /\ fLast' = <<"removeConstraint", index>>
    /\ UNCHANGED <<fOptions, fErrors, fPayload, fAwaiting>>
    /\ UNCHANGED unformvars

updateConstraint ==
    /\ ~fAwaiting
    /\ \E index \in 0..(Len(fConstraints) - 1) : \E value \in ConstraintTexts :
         fConstraints' = [fConstraints EXCEPT ![index + 1] = value]
    /\ fErrors' = IF fErrors.constraints # "" THEN [fErrors EXCEPT !.constraints = ""]
                  ELSE fErrors
    /\ UNCHANGED <<fOptions, fPayload, fAwaiting>>
    /\ fLast' = <<"updateConstraint">>
    /\ UNCHANGED unformvars

\* the submit event: validate() sets the errors; without errors onSubmit is
\* called with the non-blank entries and awaited
handleSubmit ==
    /\ ~fAwaiting
    /\ fErrors' = validate(fOptions, fConstraints)
    /\ IF fErrors' = NoFormErrors
       THEN /\ fPayload' = [options |-> NonBlankEntries(fOptions),
                            constraints |-> NonBlankEntries(fConstraints)]
            /\ fAwaiting' = TRUE
       ELSE UNCHANGED <<fPayload, fAwaiting>>
    /\ UNCHANGED <<fOptions, fConstraints>>
    /\ fLast' = <<"handleSubmit">>
    /\ UNCHANGED unformvars

\* the promise of onSubmit settles
SubmitSettled ==
    /\ fAwaiting
    /\ fAwaiting' = FALSE /\ fPayload' = NoPayload
    /\ UNCHANGED <<fOptions, fConstraints, fErrors, fLast>>
    /\ UNCHANGED unformvars

NextForm ==
    \/ addOption \/ removeOption \/ updateOption \/ addConstraint \/ removeConstraint
    \/ updateConstraint \/ handleSubmit \/ SubmitSettled

SpecForm == InitForm /\ [][NextForm]_vars

(***************************************************************************)
(* api client, HomePage and App                                            *)
(***************************************************************************)
\* what fetch and response.json() can do for POST /compare: fetch rejects
\* with a TypeError, or a response arrives whose body is JSON or not
FetchOutcomes ==
    { [kind |-> "TypeError", ok |-> FALSE, json |-> FALSE, data |-> 0, message |-> m] :
        m \in { <<"Failed", "to", "fetch">>, <<"Load", "failed">> } }
    \cup { [kind |-> "response", ok |-> TRUE, json |-> TRUE, data |-> d, message |-> <<>>] :
             d \in {1, 2} }
    \cup { [kind |-> "response", ok |-> FALSE, json |-> TRUE, data |-> 0, message |-> m] :
             m \in { <<"Invalid", "comparison", "request">>, <<>> } }
    \cup { [kind |-> "response", ok |-> o, json |-> FALSE, data |-> 0, message |-> <<>>] :
             o \in BOOLEAN }

\* error.message.includes('fetch')
IncludesFetch(message) == \E i \in DOMAIN message : message[i] = "fetch"

\* new ApiRequestError(message, ...), an Error
ApiRequestError(m) == [ok |-> FALSE, data |-> 0, isError |-> TRUE, message |-> m]

\* fetchApi: the data, or the error thrown
fetchApi(outcome) ==
    IF outcome.kind = "TypeError"
    THEN IF IncludesFetch(outcome.message)
         THEN ApiRequestError(<<"Unable", "to", "connect", "to", "the", "server.",
                                "Please", "check", "your", "connection.">>)
         ELSE [ok |-> FALSE, data |-> 0, isError |-> TRUE, message |-> outcome.message]
    ELSE IF ~outcome.json
    THEN ApiRequestError(<<"Invalid", "response", "from", "server">>)
    ELSE IF ~outcome.ok
    THEN ApiRequestError(IF outcome.message # <<>> THEN outcome.message
                         ELSE <<"An", "error", "occurred">>)
    ELSE [ok |-> TRUE, data |-> outcome.data, isError |-> FALSE, message |-> <<>>]

\* err instanceof Error ? err.message : 'An unexpected error occurred'
ErrorMessage(err) ==
    IF err.isError THEN err.message ELSE <<"An", "unexpected", "error", "occurred">>

\* the requests the form hands over
HomeRequests ==
    { [options |-> << <<"A">>, <<"B">> >>, constraints |-> << <<"cost">> >>],
      [options |-> << <<"B">>, <<"A">> >>, constraints |-> << <<"cost">> >>] }

unhomevars == <<promptvars, reqvars, healthvars, formvars, backendvars>>

InitHome ==
    /\ apiKeySet = TRUE
    /\ Idle /\ PromptIdle /\ RequestIdle /\ HealthIdle /\ FormMounted
    /\ AppMounted

\* handleSubmit up to the await: the form is rendered at "/" and is disabled
\* while isLoading
HomePageHandleSubmit ==
    /\ homePc = "idle" /\ route = "/" /\ ~isLoading /\ submits < MaxSubmits
    /\ \E request \in HomeRequests : posted' = request
    /\ isLoading' = TRUE
    /\ appError' = <<>>
    /\ homePc' = "awaiting"
    /\ submits' = submits + 1
    /\ UNCHANGED <<comparisonResult, route, settled>>
    /\ UNCHANGED unhomevars

\* handleSubmit without the finally block
PostCompareSettles_NoFinally ==
    /\ homePc = "awaiting"
    /\ \E outcome \in FetchOutcomes :
         /\ settled' = fetchApi(outcome)
         /\ homePc' = IF settled'.ok THEN "resolved" ELSE "idle"
         /\ appError' = IF settled'.ok THEN appError ELSE <<ErrorMessage(settled')>>
    /\ UNCHANGED <<comparisonResult, isLoading, route, posted, submits>>
    /\ UNCHANGED unhomevars

\* await postCompare(request) resolves or throws
PostCompareSettles ==
    /\ homePc = "awaiting"
    /\ \E outcome \in FetchOutcomes :
         /\ settled' = fetchApi(outcome)
         /\ homePc' = IF settled'.ok THEN "resolved" ELSE "caught"
    /\ UNCHANGED <<comparisonResult, isLoading, appError, route, posted, submits>>
    /\ UNCHANGED unhomevars

\* onComparisonComplete(result), which is setComparisonResult
OnComparisonComplete ==
    /\ homePc = "resolved"
    /\ comparisonResult' = <<settled.data>>
    /\ homePc' = "handed"
    /\ UNCHANGED <<isLoading, appError, route, posted, settled, submits>>
    /\ UNCHANGED unhomevars

\* navigate('/result')
NavigateResult ==
    /\ homePc = "handed"
    /\ route' = "/result"
    /\ homePc' = "finally"
    /\ UNCHANGED <<comparisonResult, isLoading, appError, posted, settled, submits>>
    /\ UNCHANGED unhomevars

\* the catch block
SetError ==
    /\ homePc = "caught"
    /\ appError' = <<ErrorMessage(settled)>>
    /\ homePc' = "finally"
    /\ UNCHANGED <<comparisonResult, isLoading, route, posted, settled, submits>>
    /\ UNCHANGED unhomevars

\* the finally block
Finally ==
    /\ homePc = "finally"
    /\ isLoading' = FALSE
    /\ homePc' = "idle"
    /\ UNCHANGED <<comparisonResult, appError, route, posted, settled, submits>>
    /\ UNCHANGED unhomevars

\* the button of the error banner; an event runs between two turns of
\* handleSubmit only
DismissError ==
    /\ homePc \in {"idle", "awaiting"} /\ appError # <<>>
    /\ appError' = <<>>
    /\ UNCHANGED <<comparisonResult, isLoading, route, homePc, posted, settled, submits>>
    /\ UNCHANGED unhomevars

\* the buttons of ResultPage: navigate('/')
NavigateHome ==
    /\ homePc \in {"idle", "awaiting"} /\ route = "/result"
    /\ route' = "/"
    /\ UNCHANGED <<comparisonResult, isLoading, appError, homePc, posted, settled, submits>>
    /\ UNCHANGED unhomevars

NextHome ==
    \/ HomePageHandleSubmit \/ PostCompareSettles \/ OnComparisonComplete \/ NavigateResult
    \/ SetError \/ Finally \/ DismissError \/ NavigateHome

SpecHome == InitHome /\ [][NextHome]_vars

\* what follows the await runs to completion
SpecHomeLive ==
    /\ SpecHome
    /\ WF_vars(OnComparisonComplete) /\ WF_vars(NavigateResult)
    /\ WF_vars(SetError) /\ WF_vars(Finally)

(***************************************************************************)
(* Properties of the normalizer (SpecNormalizer)                           *)
(***************************************************************************)
\* what normalizeGrokResponse parsed: JSON.parse of the extracted text
Parsed == JSONparse(extractJson(nRaw))
NonBlankString(v) == v.t = "str" /\ \E i \in 1..Len(v.s) : ~IsSpace(v.s[i])

\* an entry of the options array that the specification accepts
GoodOption(e) ==
    /\ e.t = "obj"
    /\ NonBlankString(Get(e, <<"name">>))
    /\ Get(e, <<"pros">>).t = "arr"
    /\ Get(e, <<"cons">>).t = "arr"
\* an entry of the tradeOffs array that the specification keeps
GoodTradeOff(e) ==
    /\ e.t = "obj"
    /\ NonBlankString(Get(e, <<"scenario">>))
    /\ NonBlankString(Get(e, <<"recommendation">>))
\* p is a parsed object whose options array is not empty and holds good entries only
OptionsAllGood(p) ==
    /\ p.ok /\ p.val.t = "obj" /\ Get(p.val, <<"options">>).t = "arr"
    /\ Len(Get(p.val, <<"options">>).kids) > 0
    /\ \A i \in 1..Len(Get(p.val, <<"options">>).kids) :
         GoodOption(Get(p.val, <<"options">>).kids[i])
Elements(xs) == {xs[i] : i \in 1..Len(xs)}
StringsOf(arr) == {arr.kids[i].s : i \in {j \in 1..Len(arr.kids) : arr.kids[j].t = "str"}}

RECURSIVE KeptTradeOffs(_)
KeptTradeOffs(es) ==
    IF es = <<>> THEN <<>>
    ELSE (IF GoodTradeOff(Head(es))
          THEN <<[scenario |-> Trim(Get(Head(es), <<"scenario">>).s),
                  recommendation |-> Trim(Get(Head(es), <<"recommendation">>).s)]>>
          ELSE <<>>) \o KeptTradeOffs(Tail(es))

\* C6: trade-off handling never fails a normalization.  Whenever the options
\* are valid, normalizeGrokResponse succeeds whatever tradeOffs is; the
\* result's tradeOffs are the entries with non-blank string scenario and
\* recommendation, in their original order, and none when tradeOffs is
\* missing or not an array.
C6_TradeOffsDegrade ==
    nPc = "done" =>
        LET p == Parsed
            tos == Get(p.val, <<"tradeOffs">>)
        IN OptionsAllGood(p) =>
           /\ nOut.ok
           /\ nOut.tradeOffs = IF tos.t = "arr" THEN KeptTradeOffs(tos.kids) ELSE <<>>

\* of two trade-off entries, the first (missing its recommendation) was
\* skipped and the second survived
C6_Witness ==
    /\ nPc = "done" /\ nOut.ok /\ Len(nOut.tradeOffs) = 1
    /\ LET p == Parsed
           tos == Get(p.val, <<"tradeOffs">>)
       IN /\ OptionsAllGood(p)
          /\ tos.t = "arr" /\ Len(tos.kids) = 2
          /\ ~GoodTradeOff(tos.kids[1])
          /\ Get(tos.kids[1], <<"scenario">>) = Str("x")

\* C7: every result of normalizeGrokResponse has at least one option.  It
\* fails with a NormalizationError when the raw string is empty, the
\* extracted text does not parse, the parsed value is not an object, it has
\* no options array, or the options array is empty.
C7_AtLeastOneOption ==
    nPc = "done" =>
        /\ nOut.ok => Len(nOut.options) >= 1
        /\ nOut.ok =>
             LET p == Parsed
             IN ~( \/ nRaw = <<>>
                   \/ ~p.ok
                   \/ p.val.t # "obj"
                   \/ Get(p.val, <<"options">>).t # "arr"
                   \/ Len(Get(p.val, <<"options">>).kids) = 0 )
        /\ ~nOut.ok => nOut.text # ""

\* a parsed object with tradeOffs and without options was rejected
C7_Witness ==
    /\ nPc = "done" /\ ~nOut.ok
    /\ LET p == Parsed
       IN /\ p.ok /\ p.val.t = "obj"
          /\ Get(p.val, <<"options">>).t = "undefined"
          /\ Get(p.val, <<"tradeOffs">>).t = "arr"

\* C8: round trip.  For every well-formed NormalizedResult r,
\* normalizeGrokResponse(JSON.stringify(r)) succeeds and equals r, whatever
\* characters the strings of r contain.
C8_RoundTrip ==
    (nKind = "result" /\ nPc = "done") =>
        /\ nOut.ok
        /\ nOut.options = nDoc.options
        /\ nOut.tradeOffs = nDoc.tradeOffs

\* C9: in every result of normalizeGrokResponse each option's name is trimmed
\* and non-empty and every element of its pros and cons is trimmed and
\* non-empty.
C9_StringsTrimmed ==
    (nPc = "done" /\ nOut.ok) =>
        \A i \in 1..Len(nOut.options) :
            LET o == nOut.options[i]
            IN /\ o.name # <<>> /\ o.name = Trim(o.name)
               /\ \A q \in Elements(o.pros) \cup Elements(o.cons) : q # <<>> /\ q = Trim(q)

\* C22: extraction picks the text to parse by priority: the trimmed interior
\* of a fenced code block if there is one, else the first {...} span, else
\* the trimmed whole string; so a JSON document wrapped in prose or in a code
\* fence normalizes to the same result as the bare JSON text.
C22_WrappedAsBare ==
    (nKind = "doc" /\ nPc = "done") =>
        /\ extractJson(nRaw) = JSONstringify(nDoc)
        /\ nOut = normalizeGrokResponse(JSONstringify(nDoc))

\* the scores mapping the specification describes for a scores field v, as
\* a set of <<key, value>> pairs.  "An object" is read as the code reads it
\* (typeof v === 'object'), so an array counts with its indices as keys.
SpecifiedScores(v) ==
    LET ks == IF v.t = "obj" THEN v.keys ELSE IndexKeys(Len(v.kids), 0)
    IN IF v.t \notin {"obj", "arr"} THEN {}
       ELSE {<<ks[i], IF v.kids[i].t = "str" THEN v.kids[i].s ELSE JsString(v.kids[i])>> :
                i \in {j \in 1..Len(ks) : v.kids[j].t \notin {"null", "undefined"}}}

\* C21: scores never cause a normalization failure and every value of a
\* result's scores is a string: of an object, each key with a string value is
\* kept verbatim, each key with a non-string non-null value maps to its
\* stringification, keys with null values are absent; absent or non-object
\* scores give the empty mapping.
C21_ScoresLenient ==
    (nKind = "scores" /\ nPc = "done") =>
        /\ nOut.ok /\ Len(nOut.options) = 1
        /\ Elements(nOut.options[1].scores) = SpecifiedScores(nDoc)
        /\ Len(nOut.options[1].scores) = Cardinality(SpecifiedScores(nDoc))

(***************************************************************************)
(* Properties of callGrokWithRetry and executeComparison (Spec)            *)
(***************************************************************************)
GrokFinished == gpc \in {"returned", "threw"}
IsPrefix(xs, ys) == Len(xs) <= Len(ys) /\ xs = SubSeq(ys, 1, Len(xs))
\* a non-success status that is neither 429 nor >= 500
FatalStatus(o) ==
    o.kind = "http" /\ ~ResponseOk(o.status) /\ o.status # 429 /\ o.status < 500
\* the rows of comparison_results written for the id of this invocation
RunResults == {i \in 1..Len(dbResults) : dbResults[i].comparison_id = comparisonId}

\* C1: callGrokWithRetry never issues more than maxRetries requests in one
\* invocation; when the endpoint answers 500 on every attempt, exactly
\* maxRetries requests are issued and the invocation ends with an error,
\* which executeComparison reports as the AI-unavailable failure.
C1_RetryBound ==
    /\ requests <= maxRetries
    /\ ( /\ GrokFinished /\ apiKeySet
         /\ \A i \in 1..Len(outcomes) : outcomes[i].kind = "http" /\ outcomes[i].status = 500 )
         => (requests = maxRetries /\ gpc = "threw")
    /\ (mode = "compare" /\ pc = "done" /\ gpc = "threw")
         => (response.status = 502 /\ response.error = "ai_service_error")

\* POST /compare met three 500 responses and answered 502
C1_Witness ==
    /\ mode = "compare" /\ pc = "done" /\ requests = MAX_RETRIES
    /\ \A i \in 1..Len(outcomes) : outcomes[i] = Outcome("http", 500, "text", 0)
    /\ response.error = "ai_service_error"

\* C2: a response whose status is non-success and neither 429 nor >= 500 ends
\* callGrokWithRetry at once with an error: no further request is issued and
\* no backoff wait follows it, at any attempt.
C2_FatalStatusEndsCall ==
    \A i \in 1..Len(outcomes) :
        FatalStatus(outcomes[i]) => (i = Len(outcomes) /\ gpc = "threw" /\ Len(waits) = i - 1)

\* C3: executeComparison runs storeComparisonRequest, buildComparisonPrompt,
\* callGrokWithRetry, normalizeGrokResponse, storeComparisonResult in this
\* order, each at most once, and no step after one that failed; when
\* storeComparisonRequest fails no AI request is issued and no result is
\* stored; a record is returned only after storeComparisonResult succeeded.
C3_StraightLine ==
    /\ IsPrefix(trace, Steps)
    /\ failedAt # "" => (pc = "done" /\ trace # <<>> /\ trace[Len(trace)] = failedAt)
    /\ failedAt = "storeComparisonRequest" =>
         (requests = 0 /\ gpc = "idle" /\ comparisonId = NoId /\ RunResults = {})
    /\ response.status = 200 =>
         /\ trace = Steps /\ failedAt = ""
         /\ \E i \in RunResults : response.record.id = dbResults[i].comparison_id

\* storeComparisonRequest failed and the invocation ended there
C3_Witness ==
    /\ mode = "compare" /\ pc = "done" /\ failedAt = "storeComparisonRequest"
    /\ trace = <<"storeComparisonRequest">> /\ response.status = 500

C10_EmptyContentRejected ==
    /\ gpc = "returned" => gResult # <<>>
    /\ \A i \in 1..Len(outcomes) :
         (outcomes[i].kind = "http" /\ ResponseOk(outcomes[i].status)
            /\ outcomes[i].body \in {"noContent", "emptyContent"})
           => (i = Len(outcomes) /\ gpc = "threw")

\* a failure the specification calls transient: a network error, or a
\* response with status 429 or >= 500
TransientFailure(o) ==
    o.kind = "network" \/ (o.kind = "http" /\ (o.status = 429 \/ o.status >= 500))
\* the fetch got a success response from which a string was returned
Succeeded(o) ==
    o.kind = "http" /\ ResponseOk(o.status) /\ o.body \in {"content", "emptyContent", "noContent"}

C12_TransientAbsorbed ==
    /\ \A i \in 1..requests :
         (i < maxRetries /\ TransientFailure(outcomes[i]))
           => (i < requests \/ gpc \in {"delay", "loop"})
    /\ ( /\ requests >= 1
         /\ \A i \in 1..(requests - 1) : TransientFailure(outcomes[i])
         /\ outcomes[requests].kind = "http" /\ ResponseOk(outcomes[requests].status)
         /\ outcomes[requests].body = "content" )
         => /\ gpc = "returned"
            /\ gResult = Contents[outcomes[requests].content]
            /\ gError = NoError
            /\ Len(waits) = requests - 1
            /\ (mode = "compare" /\ pc \in {"normalize", "storeResult", "done"})
                 => (rawResponse = gResult /\ failedAt # "callGrokWithRetry")

\* a 500, then a network failure, then content: returned after three requests
C12_Witness ==
    /\ gpc = "returned" /\ requests = 3
    /\ outcomes[1].kind = "http" /\ outcomes[1].status = 500
    /\ outcomes[2].kind = "network"
    /\ outcomes[3].body = "content" /\ gResult = Contents[2]

\* C13: when GROQ_API_KEY is absent, callGrokWithRetry fails before any
\* request is issued (zero requests, zero waits), and executeComparison
\* reports the failure as ai_service_error with status 502.
C13_NoKeyNoRequest ==
    ~apiKeySet =>
        /\ requests = 0 /\ waits = <<>>
        /\ gpc \in {"idle", "getApiKey", "threw"}
        /\ (mode = "compare" /\ pc = "done" /\ failedAt # "storeComparisonRequest")
             => /\ failedAt = "callGrokWithRetry"
                /\ response.status = 502 /\ response.error = "ai_service_error"
                /\ RunResults = {}

\* POST /compare without a key: the request row is written, no fetch, 502
C13_Witness ==
    /\ ~apiKeySet /\ mode = "compare" /\ pc = "done"
    /\ failedAt = "callGrokWithRetry" /\ requests = 0 /\ response.status = 502

C15_GenericAiMessage ==
    (mode = "compare" /\ pc = "done" /\ failedAt = "callGrokWithRetry" /\ requests >= 1) =>
        \A o \in Outcomes :
            LET r == LoopBody(o, attempt, maxRetries)
            IN r.k = "throw" => response = RespondError(AiServiceError(r.error.message))

RequestIds == {dbRequests[i].id : i \in 1..Len(dbRequests)}

\* C17: persistence is consistent without compensation.  In every reachable
\* state, over any number of runs, each stored result references the id of a
\* stored request, and a result exists for a run's id only if its completion
\* call and its normalization succeeded; a run that fails at the completion,
\* normalization or store-result step leaves its request row in place and
\* without a result; no row is ever deleted or modified.
C17_NoCompensation ==
    /\ [](/\ \A i \in 1..Len(dbResults) : dbResults[i].comparison_id \in RequestIds
          /\ (mode = "compare" /\ RunResults # {})
               => (gpc = "returned" /\ normalizedResult.ok /\ failedAt = "")
          /\ (mode = "compare" /\ failedAt \in {"callGrokWithRetry", "normalizeGrokResponse",
                                                "storeComparisonResult"})
               => /\ \E i \in 1..Len(dbRequests) :
                        dbRequests[i] = [id |-> comparisonId, input |-> input]
                  /\ RunResults = {})
    /\ [][/\ IsPrefix(dbRequests, dbRequests')
          /\ IsPrefix(dbResults, dbResults')
          /\ dbResults' # dbResults
               => /\ pc = "storeResult" /\ gpc = "returned" /\ normalizedResult.ok
                  /\ Len(dbResults') = Len(dbResults) + 1
                  /\ dbResults'[Len(dbResults')].comparison_id = comparisonId
                  /\ comparisonId \in RequestIds]_vars

\* after a run that stored its result, a second run failed in normalization:
\* two request rows, one result row
C17_Witness ==
    /\ mode = "compare" /\ pc = "done" /\ failedAt = "normalizeGrokResponse"
    /\ Len(dbRequests) = 2 /\ Len(dbResults) = 1
    /\ dbResults[1].comparison_id = dbRequests[1].id

\* C20: the pipeline does no deduplication.  Every run that passes step 1
\* inserts a new request row with an id no earlier row has, whatever rows
\* with the same input exist; every successful run has issued its own
\* completion requests and has its own result row, so n successful runs
\* leave n request rows with n distinct ids.
C20_NoDeduplication ==
    /\ [](/\ \A i, j \in 1..Len(dbRequests) :
               dbRequests[i].id = dbRequests[j].id => i = j
          /\ \A i, j \in 1..Len(dbResults) :
               dbResults[i].comparison_id = dbResults[j].comparison_id => i = j
          /\ Len(dbResults) <= Len(dbRequests) /\ Len(dbRequests) <= runs
          /\ (mode = "compare" /\ pc = "done" /\ response.status = 200)
               => /\ requests >= 1 /\ gpc = "returned"
                  /\ Cardinality(RunResults) = 1
                  /\ \E i \in 1..Len(dbRequests) :
                        dbRequests[i] = [id |-> comparisonId, input |-> input])
    /\ [][(pc = "storeRequest" /\ pc' = "buildPrompt")
            => /\ comparisonId' \notin RequestIds
               /\ dbRequests' = Append(dbRequests, [id |-> comparisonId', input |-> input])]_vars

\* two successful runs of the same input: two request rows, two result rows
C20_Witness ==
    /\ mode = "compare" /\ pc = "done" /\ response.status = 200
    /\ Len(dbRequests) = 2 /\ dbRequests[1].input = dbRequests[2].input
    /\ dbRequests[1].id # dbRequests[2].id
    /\ Len(dbResults) = 2 /\ dbResults[1].comparison_id # dbResults[2].comparison_id

\* C19: caller cancellation of an in-flight attempt is immediately fatal: the
\* attempt is aborted and the call ends with an error, no further request
\* and no backoff wait follows, and the cancelled attempt is not counted.
C19_CancellationIsFatal ==
    cancelledAt # 0 =>
        /\ requests <= cancelledAt
        /\ Len(waits) < cancelledAt
        /\ gpc \in {"loop", "threw"}
        /\ gpc = "loop" => attempt = cancelledAt

(***************************************************************************)
(* Properties of concurrent calls (SpecConcurrent)                         *)
(***************************************************************************)
\* the rows of comparison_results written under the id of call p
ResultsOf(p) == {i \in 1..Len(dbResults) : dbResults[i].comparison_id = calls[p].comparisonId}

\* C18: under any interleaving of concurrent executeComparison calls, each
\* call stores its result under the id its own storeComparisonRequest
\* returned and returns that id with its own normalized result (the one
\* option the completion of its own fetch names: "A" in the first of
\* ConcurrentOutcomes' completions, "B" in the other); attempt counters are
\* per call, so the failures one call meets take no attempt from another.
C18_CallsIndependent ==
    /\ [](\A p \in Calls :
            /\ \A q \in Calls \ {p} :
                 calls[p].comparisonId # NoId => calls[p].comparisonId # calls[q].comparisonId
            /\ calls[p].comparisonId # NoId =>
                 \E i \in 1..Len(dbRequests) :
                    dbRequests[i] = [id |-> calls[p].comparisonId, input |-> calls[p].input]
            /\ ResultsOf(p) # {} <=> (calls[p].pc = "done" /\ calls[p].response.status = 200)
            /\ calls[p].response.status = 200 =>
                 LET n == calls[p].normalizedResult
                 IN /\ calls[p].response.record =
                         [id |-> calls[p].comparisonId, options |-> n.options,
                          tradeOffs |-> n.tradeOffs]
                    /\ Cardinality(ResultsOf(p)) = 1
                    /\ \A i \in ResultsOf(p) :
                         dbResults[i].options = n.options /\ dbResults[i].tradeOffs = n.tradeOffs
            /\ calls[p].requests <= MAX_RETRIES
            /\ calls[p].pc = "callGrok" => calls[p].attempt = calls[p].requests + 1
            /\ calls[p].pc = "delay" => calls[p].attempt = calls[p].requests
            /\ (calls[p].failedAt = "callGrokWithRetry" /\ TransientFailure(calls[p].last))
                 => calls[p].requests = MAX_RETRIES)
    /\ [][\A p \in Calls :
            /\ calls'[p].normalizedResult # calls[p].normalizedResult =>
                 /\ calls[p].last.kind = "http" /\ calls[p].last.status = 200
                 /\ calls[p].rawResponse = Contents[calls[p].last.content]
                 /\ calls'[p].normalizedResult.ok
                 /\ Len(calls'[p].normalizedResult.options) = 1
                 /\ calls'[p].normalizedResult.options[1].name =
                       (IF calls[p].last.content = 1 THEN <<"A">> ELSE <<"B">>)
            /\ \A q \in Calls \ {p} :
                 calls'[p].requests # calls[p].requests =>
                    /\ calls'[q].requests = calls[q].requests
                    /\ calls'[q].attempt = calls[q].attempt]_vars

\* call 2 stored its request first and finished after one request; call 1
\* met two failures of its own, then got a different completion; each
\* returned its own id and result
C18_Witness ==
    /\ calls[1].pc = "done" /\ calls[2].pc = "done"
    /\ calls[1].response.status = 200 /\ calls[2].response.status = 200
    /\ calls[2].comparisonId = 1 /\ calls[1].comparisonId = 2
    /\ calls[1].requests = 3 /\ calls[2].requests = 1
    /\ calls[1].response.record.options # calls[2].response.record.options
    /\ dbResults[1].comparison_id = 2

\* C26: once the endpoint has answered an attempt with a success status,
\* callGrokWithRetry issues no further request in that invocation; a success
\* response whose body cannot be read or decoded, or lacks choices or
\* message, ends the invocation with an error on that same attempt, without
\* a backoff wait.
C26_SuccessStatusEndsCall ==
    \A i \in 1..Len(outcomes) :
        (outcomes[i].kind = "http" /\ ResponseOk(outcomes[i].status)) =>
            /\ i = Len(outcomes) /\ GrokFinished /\ Len(waits) = i - 1
            /\ outcomes[i].body \in {"unreadable", "null", "noChoices", "emptyChoices", "noMessage"}
                 => gpc = "threw"

(***************************************************************************)
(* Properties of buildComparisonPrompt (SpecPrompt)                        *)
(***************************************************************************)
FirstIndex(text, sym) == Min({i \in 1..Len(text) : text[i] = sym})
\* the lines between the heading `from` and the blank line before the heading `to`
Section(text, from, to) == SubSeq(text, FirstIndex(text, from) + 2, FirstIndex(text, to) - 3)
\* the positions of text where `line` is a whole line
LineStarts(text, line) ==
    {i \in 1..Len(text) :
        /\ i = 1 \/ text[i - 1] = NL
        /\ i + Len(line) - 1 <= Len(text) /\ SubSeq(text, i, i + Len(line) - 1) = line
        /\ i + Len(line) > Len(text) \/ text[i + Len(line)] = NL}
LineCount(text) == 1 + Cardinality({i \in 1..Len(text) : text[i] = NL})
\* item k of the list, prefixed by its 1-based ordinal
Entry(items, k) == ToDigits(k) \o <<". ">> \o items[k]
\* section lists every item exactly once, in the order of items
Listed(section, items) ==
    /\ LineCount(section) = Len(items)
    /\ \A k \in 1..Len(items) : Cardinality(LineStarts(section, Entry(items, k))) = 1
    /\ \A k, l \in 1..Len(items) :
         k < l => \A i \in LineStarts(section, Entry(items, k)) :
                  \A j \in LineStarts(section, Entry(items, l)) : i < j

\* C23: for non-empty options and constraints, the text buildComparisonPrompt
\* returns lists every option and every constraint exactly once each, in
\* input order and prefixed by its 1-based ordinal, and contains the literal
\* instruction against declaring a best or a winner.
C23_PromptComplete ==
    prompt # <<>> =>
        /\ Listed(Section(prompt, "OPTIONS TO COMPARE:", "CONSTRAINTS TO EVALUATE:"),
                  pInput.options)
        /\ Listed(Section(prompt, "CONSTRAINTS TO EVALUATE:", "INSTRUCTIONS:"),
                  pInput.constraints)
        /\ \E i \in 1..Len(prompt) :
             prompt[i] = "3. DO NOT declare a \"best\" or \"winner\" - remain completely neutral"

\* a prompt was built for two options and two constraints, AWS being the
\* first option and the second constraint
C23_Witness ==
    /\ prompt # <<>>
    /\ pInput.options = << <<"AWS">>, <<"Google", " ", "Cloud">> >>
    /\ pInput.constraints = << <<"cost">>, <<"AWS">> >>
    /\ Len(prompt) > Len(PromptHead) + Len(PromptMiddle) + Len(PromptTail)

(***************************************************************************)
(* Properties of POST /compare (SpecRequest)                               *)
(***************************************************************************)
\* v is an array of at least n elements, each a non-blank string
ArrayOfNonBlank(v, n) ==
    /\ v.t = "arr" /\ Len(v.kids) >= n
    /\ \A i \in 1..Len(v.kids) : NonBlankString(v.kids[i])
ValidBody(b) ==
    ArrayOfNonBlank(Get(b, <<"options">>), 2) /\ ArrayOfNonBlank(Get(b, <<"constraints">>), 1)
TrimmedNonEmpty(xs) == \A i \in 1..Len(xs) : xs[i] # <<>> /\ xs[i] = Trim(xs[i])

\* C24: validateComparisonRequest lets a request through to executeComparison
\* if and only if options is an array of at least 2 and constraints an array
\* of at least 1 elements, all of them non-blank strings; otherwise it
\* answers 400 validation_error, nothing is persisted and no AI request is
\* made.  The input that reaches executeComparison has at least 2 options and
\* 1 constraint, every entry trimmed and non-empty.
C24_ValidatedInput ==
    /\ vPc \in {"next", "handled"} => (ValidBody(received) /\ vRes = NoValidationError)
    /\ vPc = "rejected" =>
         /\ ~ValidBody(received)
         /\ vRes.status = 400 /\ vRes.error = "validation_error"
    /\ vPc \in {"received", "rejected", "next"} =>
         /\ pc = "idle" /\ gpc = "idle" /\ requests = 0 /\ trace = <<>>
         /\ dbRequests = <<>> /\ dbResults = <<>>
    /\ vPc = "handled" =>
         /\ Len(input.options) >= 2 /\ Len(input.constraints) >= 1
         /\ TrimmedNonEmpty(input.options) /\ TrimmedNonEmpty(input.constraints)
         /\ Len(input.options) = Len(Get(received, <<"options">>).kids)
         /\ \A i \in 1..Len(input.options) :
              input.options[i] = Trim(Get(received, <<"options">>).kids[i].s)
         /\ \A i \in 1..Len(input.constraints) :
              input.constraints[i] = Trim(Get(received, <<"constraints">>).kids[i].s)

\* a body with entries in need of trimming went through to a 200 answer
C24_Witness ==
    /\ vPc = "handled" /\ pc = "done" /\ response.status = 200
    /\ Get(received, <<"options">>).kids[1].s = <<" ", "A", " ">>
    /\ input.options = << <<"A">>, <<"B">>, <<"C", " ", "D">> >>
    /\ input.constraints = << <<"cost">>, <<"speed">> >>

(***************************************************************************)
(* Properties of the pool and of GET /health (SpecHealth, SpecHealthLive)  *)
(***************************************************************************)
\* C27: every client acquired with pool.connect() by checkConnection or
\* initializeDatabase is released again, on the success path and on the
\* failure path of the query: once initializeDatabase has ended and no
\* checkConnection is under way, the application holds no client.
C27_ClientsReleased ==
    (idbPc \in {"done", "threw"} /\ dbPc \in {"idle", "returned"}) => poolHeld = 0

\* C25: the probes never throw and return true only for a success response
\* (a successful query); GET /health always produces a response, 200 healthy
\* exactly when both probes returned true and 503 unhealthy otherwise.
C25_HealthAlwaysAnswers ==
    /\ [](/\ grokPc = "returned" =>
               grokConnected = (apiKeySet /\ probeMet.kind = "http" /\ ResponseOk(probeMet.status))
          /\ hPc = "responded" =>
               /\ hResponse.statusCode \in {200, 503}
               /\ (hResponse.statusCode = 200) = (dbConnected /\ grokConnected)
               /\ (hResponse.status = "healthy") = (hResponse.statusCode = 200)
               /\ (hResponse.status = "unhealthy") = (hResponse.statusCode = 503))
    /\ (hPc = "probing" ~> hPc = "responded")


(***************************************************************************)
(* Properties of ComparisonForm (SpecForm)                                 *)
(***************************************************************************)
\* the fields holding something else than spaces
Filled(xs) == {i \in 1..Len(xs) : \E k \in 1..Len(xs[i]) : xs[i][k] # " "}
\* ys holds the filled fields of xs and nothing else, in the order of xs
FilledInOrder(xs, ys) ==
    /\ Len(ys) = Cardinality(Filled(xs))
    /\ \A i \in Filled(xs) : ys[Cardinality({j \in Filled(xs) : j <= i})] = xs[i]
\* ys is xs without the field at the 0-based index
FieldDeleted(xs, ys, index) ==
    /\ index + 1 \in 1..Len(xs) /\ Len(ys) = Len(xs) - 1
    /\ \A k \in 1..index : ys[k] = xs[k]
    /\ \A k \in (index + 1)..Len(ys) : ys[k] = xs[k + 1]
SubmitEvent == ~fAwaiting /\ fLast' = <<"handleSubmit">>

\* C28: ComparisonForm calls onSubmit only when at least 2 option fields and
\* at least 1 constraint field are non-blank; the payload holds exactly the
\* non-blank entries in field order, so validateComparisonRequest accepts
\* every submitted payload; a failed client-side validation submits nothing
\* and sets an error message.
C28_FormSubmitsValid ==
    /\ [](fAwaiting =>
            /\ Len(fPayload.options) >= 2 /\ Len(fPayload.constraints) >= 1
            /\ Filled(fPayload.options) = 1..Len(fPayload.options)
            /\ Filled(fPayload.constraints) = 1..Len(fPayload.constraints)
            /\ validateComparisonRequest(RequestBody(fPayload)).next)
    /\ [][/\ (fAwaiting' /\ ~fAwaiting) =>
              /\ fLast' = <<"handleSubmit">>
              /\ Cardinality(Filled(fOptions)) >= 2
              /\ Cardinality(Filled(fConstraints)) >= 1
              /\ FilledInOrder(fOptions, fPayload'.options)
              /\ FilledInOrder(fConstraints, fPayload'.constraints)
              /\ fErrors' = NoFormErrors
          /\ (SubmitEvent /\ (Cardinality(Filled(fOptions)) < 2
                               \/ Cardinality(Filled(fConstraints)) < 1)) =>
              /\ ~fAwaiting' /\ fPayload' = NoPayload
              /\ fErrors' # NoFormErrors
              /\ (Cardinality(Filled(fOptions)) < 2) = (fErrors'.options # "")
              /\ (Cardinality(Filled(fConstraints)) < 1) = (fErrors'.constraints # "")
          /\ (SubmitEvent /\ Cardinality(Filled(fOptions)) >= 2
                          /\ Cardinality(Filled(fConstraints)) >= 1) => fAwaiting'
       ]_vars

\* a payload that leaves out a blank field between two filled ones is pending
C28_Witness ==
    /\ fAwaiting /\ fOptions = << <<"B">>, <<" ">>, <<"A">> >>
    /\ fPayload.options = << <<"B">>, <<"A">> >>
    /\ fPayload.constraints = << <<"cost">> >>
    /\ Len(fConstraints) = 2

\* C29: after any sequence of add, remove and update actions the form holds
\* at least 2 option fields and at least 1 constraint field; a remove at the
\* minimum count leaves the lists unchanged, and a remove above the minimum
\* deletes exactly the field at the given index, keeping the order of the
\* others.
C29_FieldMinimums ==
    /\ [](Len(fOptions) >= 2 /\ Len(fConstraints) >= 1)
    /\ [][/\ (~fAwaiting /\ fLast'[1] = "removeOption") =>
              /\ fConstraints' = fConstraints
              /\ IF Len(fOptions) = 2 THEN fOptions' = fOptions
                 ELSE FieldDeleted(fOptions, fOptions', fLast'[2])
          /\ (~fAwaiting /\ fLast'[1] = "removeConstraint") =>
              /\ fOptions' = fOptions
              /\ IF Len(fConstraints) = 1 THEN fConstraints' = fConstraints
                 ELSE FieldDeleted(fConstraints, fConstraints', fLast'[2])
          /\ Len(fOptions') < Len(fOptions) => fLast'[1] = "removeOption"
          /\ Len(fConstraints') < Len(fConstraints) => fLast'[1] = "removeConstraint"
       ]_vars

\* the middle one of three option fields was removed; the constraint list,
\* at its minimum, was asked to remove its only field before
C29_Witness ==
    /\ fLast = <<"removeOption", 1>> /\ fOptions = << <<"A">>, <<"B">> >>
    /\ fConstraints = << <<"cost">> >>

(***************************************************************************)
(* Properties of HomePage.handleSubmit (SpecHomeLive)                      *)
(***************************************************************************)
\* C30: HomePage.handleSubmit sets isLoading to true and clears the error
\* before the request; isLoading always returns to false when the request
\* settles, on success and on failure alike; navigation to /result happens
\* only after the result was handed to onComparisonComplete; on failure the
\* error message is set and no navigation occurs.
C30_SubmitLifecycle ==
    /\ [](/\ homePc = "awaiting" => (isLoading /\ appError = <<>>)
          /\ homePc = "idle" => ~isLoading)
    /\ [][/\ (homePc = "idle" /\ homePc' = "awaiting") => (isLoading' /\ appError' = <<>>)
          /\ (route = "/" /\ route' = "/result") =>
               (settled.ok /\ comparisonResult = <<settled.data>>)
          /\ (homePc \in {"caught", "finally"} /\ ~settled.ok) =>
               (route' = route /\ comparisonResult' = comparisonResult)
          /\ (homePc # "idle" /\ homePc' = "idle" /\ ~settled.ok) =>
               (appError' # <<>> /\ appError'[1] # <<>> /\ route' = "/")
          /\ (homePc # "idle" /\ homePc' = "idle" /\ settled.ok) =>
               (route' = "/result" /\ appError' = <<>>)
       ]_vars
    /\ (homePc \in {"resolved", "caught"} ~> (homePc = "idle" /\ ~isLoading))

\* a second request failed after a first one succeeded: the message is shown
\* at "/", the first result is kept, nothing is loading
C30_Witness ==
    /\ homePc = "idle" /\ submits = 2 /\ ~settled.ok /\ route = "/" /\ ~isLoading
    /\ appError = << <<"Unable", "to", "connect", "to", "the", "server.",
                       "Please", "check", "your", "connection.">> >>
    /\ comparisonResult = <<1>>
====
